---- MODULE Spec2Model ----
(***************************************************************************)
(* DocsGuard: the validator (core/validator.rs), the baseline engine       *)
(* (baseline/mod.rs) and the check command (main.rs) as a state machine.   *)
(*                                                                         *)
(* Text.  A Rust String is modelled as a sequence of pieces.  A piece is   *)
(* an atomic run of non-whitespace characters (a TLA+ string), or one      *)
(* whitespace character (" ", "\t", "\n").  Type names are spelled one     *)
(* character per piece, because normalize_type works on characters.        *)
(* Concatenation (format!, push_str) is \o.  Message literals are written *)
(* without accents and without backquotes, and the em dash as "--".        *)
(*                                                                         *)
(* Option<T> is a sequence of length 0 (None) or 1 (Some(v)).              *)
(***************************************************************************)
EXTENDS Integers, Sequences, FiniteSets, TLC

VARIABLES
    code_entities,   \* Vec<CodeEntity>: what parse_code_file returns for the code file
    doc_sections,    \* Vec<DocSection>: what parse_markdown_file returns for the doc file
    pc,              \* position of the modelled command / function application
    results,         \* Vec<ValidationResult>: validate_links' result, filter_baseline's input
    baseline_file,   \* the file .docsguard/baseline.yaml of the project root
    reported,        \* the findings left after baseline filtering (new_results)
    suppressed,      \* the count filter_baseline returns (baseline_filtered)
    exit_code,       \* process exit status of the command (-1 while running)
    in_memory,       \* Option<Baseline>: the baseline held in memory
    built_from,      \* how many of results from_results was given (-1: not called)
    type_in,         \* normalize_type: the argument
    type_out,        \* normalize_type: the result
    type_out2,       \* normalize_type applied to its own result
    fp_message,      \* make_fingerprint: a message
    fp_variant,      \* make_fingerprint: a second message
    fingerprints,    \* make_fingerprint of the two messages
    saved,           \* the baselines given to Baseline::save, in call order
    load_result,     \* what Baseline::load returned
    candidates,      \* Vec<CandidateLink>: find_candidates' result
    events,          \* the markdown document: its blocks, each with its lines and its parser events
    code_file,       \* the file given to parse_code_file
    outcome,         \* what parse_code_file did and returned
    dry_run,         \* run_scaffold: the --dry-run flag
    force,           \* run_scaffold: the --force flag
    answers,         \* what prompt_user will return, call after call
    code_text,       \* the content of the code file on disk
    scaffold,        \* what run_scaffold / apply_changes did and returned
    sibling_nodes,   \* find_docs_annotation: the children of the parent node and the function among them
    walk_result,     \* find_docs_annotation: the result
    def_line,        \* parse_definition_as_arg: the line
    def_arg,         \* parse_definition_as_arg: the result
    disk,            \* watch mode: the code file and the doc file on disk
    channel,         \* watch mode: the messages of the debouncer not yet received
    screen,          \* watch mode: what the last clear_and_validate displayed
    registered       \* watch mode: whether the watcher observes the directories

fileVars == <<code_entities, doc_sections, baseline_file>>

runVars == <<results, reported, suppressed, exit_code, in_memory, built_from>>

typeVars == <<type_in, type_out, type_out2>>

fpVars == <<fp_message, fp_variant, fingerprints>>

snapVars == <<saved, load_result>>

heurVars == <<candidates>>

mdVars == <<events>>

gateVars == <<code_file, outcome>>

scaffoldVars == <<dry_run, force, answers, code_text, scaffold>>

walkVars == <<sibling_nodes, walk_result>>

defVars == <<def_line, def_arg>>

watchVars == <<disk, channel, screen, registered>>

toolVars == <<scaffoldVars, walkVars, defVars, watchVars>>

laterVars == <<fpVars, snapVars, heurVars, mdVars, gateVars, toolVars>>

vars == <<pc, fileVars, runVars, typeVars, laterVars>>

-----------------------------------------------------------------------------
(* Option<T> *)

None == <<>>

Some(v) == <<v>>

Unwrap(o) == o[1]

(* Option::as_deref().unwrap_or(d) *)
UnwrapOr(o, d) == IF Len(o) = 1 THEN o[1] ELSE d

-----------------------------------------------------------------------------
(* Text helpers *)

WhiteSpace == {" ", "\t", "\n"}

RECURSIVE TrimStart(_)
TrimStart(s) ==
    IF s # <<>> /\ Head(s) \in WhiteSpace THEN TrimStart(Tail(s)) ELSE s

RECURSIVE TrimEnd(_)
TrimEnd(s) ==
    IF s # <<>> /\ s[Len(s)] \in WhiteSpace
    THEN TrimEnd(SubSeq(s, 1, Len(s) - 1))
    ELSE s

(* str::trim *)
Trim(s) == TrimEnd(TrimStart(s))

UpperChars ==
    <<"A", "B", "C", "D", "E", "F", "G", "H", "I", "J", "K", "L", "M",
      "N", "O", "P", "Q", "R", "S", "T", "U", "V", "W", "X", "Y", "Z">>

LowerChars ==
    <<"a", "b", "c", "d", "e", "f", "g", "h", "i", "j", "k", "l", "m",
      "n", "o", "p", "q", "r", "s", "t", "u", "v", "w", "x", "y", "z">>

(* char::to_lowercase on the ASCII range: only A..Z change *)
LowerChar(c) ==
    IF \E i \in 1..Len(UpperChars) : UpperChars[i] = c
    THEN LowerChars[CHOOSE i \in 1..Len(UpperChars) : UpperChars[i] = c]
    ELSE c

(* str::to_lowercase *)
ToLowercase(s) == [i \in 1..Len(s) |-> LowerChar(s[i])]

-----------------------------------------------------------------------------
(* normalize_type, validator.rs:211-229 *)

T_string == <<"s", "t", "r", "i", "n", "g">>

T_number == <<"n", "u", "m", "b", "e", "r">>

T_boolean == <<"b", "o", "o", "l", "e", "a", "n">>

T_uuid == <<"u", "u", "i", "d">>

(* match arm, validator.rs:216 *)
StringAliases ==
    { T_string,
      <<"s", "t", "r">>,
      <<"&", "s", "t", "r">>,
      <<"t", "e", "x", "t">>,
      <<"&", "s", "t", "r", "i", "n", "g">> }

(* match arm, validator.rs:218-219 *)
NumberAliases ==
    { T_number,
      <<"i", "n", "t", "e", "g", "e", "r">>,
      <<"i", "n", "t">>,
      <<"i", "8">>, <<"i", "1", "6">>, <<"i", "3", "2">>, <<"i", "6", "4">>,
      <<"i", "1", "2", "8">>, <<"i", "s", "i", "z", "e">>,
      <<"u", "8">>, <<"u", "1", "6">>, <<"u", "3", "2">>, <<"u", "6", "4">>,
      <<"u", "1", "2", "8">>, <<"u", "s", "i", "z", "e">>,
      <<"f", "3", "2">>, <<"f", "6", "4">>,
      <<"f", "l", "o", "a", "t">>,
      <<"d", "o", "u", "b", "l", "e">> }

(* match arm, validator.rs:223 *)
BooleanAliases == { T_boolean, <<"b", "o", "o", "l">> }

(* variant: the match is made on the trimmed text before it is lowercased *)
normalize_type_case_sensitive(type_str) ==
    LET cleaned == Trim(type_str)
    IN  IF cleaned \in StringAliases THEN T_string
        ELSE IF cleaned \in NumberAliases THEN T_number
        ELSE IF cleaned \in BooleanAliases THEN T_boolean
        ELSE IF cleaned = T_uuid THEN T_string
        ELSE ToLowercase(cleaned)

normalize_type(type_str) ==
    LET cleaned == ToLowercase(Trim(type_str))
    IN  IF cleaned \in StringAliases THEN T_string
        ELSE IF cleaned \in NumberAliases THEN T_number
        ELSE IF cleaned \in BooleanAliases THEN T_boolean
        ELSE IF cleaned = T_uuid THEN T_string
        ELSE cleaned

-----------------------------------------------------------------------------
(* Text building *)

SP == <<" ">>

Q == <<"'">>

(* a literal run of words, single spaces between them *)
Text(ws) ==
    [i \in 1..(2 * Len(ws) - 1) |-> IF i % 2 = 1 THEN ws[(i + 1) \div 2] ELSE " "]

RECURSIVE Cat(_)
Cat(parts) == IF parts = <<>> THEN <<>> ELSE Head(parts) \o Cat(Tail(parts))

-----------------------------------------------------------------------------
(* core/types.rs *)

Severities == {"Error", "Warning", "Info"}

(* types.rs:12-16 *)
Arg(name, type_name) ==
    [name |-> name, type_name |-> type_name, description |-> None]

(* types.rs:21-34 *)
CodeEntity(name, args, doc_id, line) ==
    [name |-> name, args |-> args, return_type |-> None, doc_id |-> doc_id,
     file_path |-> <<"src/auth.ts">>, line |-> line]

(* types.rs:39-50 *)
DocSection(id, title, args, line) ==
    [id |-> id, title |-> title, args |-> args,
     file_path |-> <<"docs/auth.md">>, line |-> line]

(* types.rs:74-86 *)
ValidationResult(severity, message, function_name, code_location, doc_id, hint) ==
    [severity |-> severity, message |-> message, function_name |-> function_name,
     code_location |-> code_location, doc_id |-> doc_id, hint |-> hint]

(* format!("{}:{}", entity.file_path.display(), entity.line) *)
Location(entity) == entity.file_path \o <<":", ToString(entity.line)>>

-----------------------------------------------------------------------------
(* check_type_mismatch, validator.rs:171-207 *)

TypeMismatchFinding(entity, code_arg, doc_arg, location, doc_id) ==
    ValidationResult(
        "Warning",
        Cat(<<Text(<<"Type", "mismatch", "en", "argumento">>), SP, Q, code_arg.name,
              <<"':">>, SP, Text(<<"codigo", "tiene">>), SP, Q,
              Unwrap(code_arg.type_name), <<"',">>, SP, Text(<<"docs", "dice">>), SP, Q,
              Unwrap(doc_arg.type_name), <<"'.">>>>),
        Some(entity.name), Some(location), Some(doc_id),
        Some(Cat(<<Text(<<"Actualiza", "el", "tipo", "de">>), SP, Q, code_arg.name, Q,
                   SP, Text(<<"en", "la", "documentacion", "a">>), SP, Q,
                   Unwrap(code_arg.type_name), Q, SP,
                   Text(<<"(o", "verifica", "si", "es", "un", "alias", "valido).">>)>>)))

(* variant: the raw type texts are compared, without normalization *)
check_type_mismatch_raw(entity, code_arg, doc_arg, location, doc_id) ==
    IF code_arg.type_name = None THEN <<>>
    ELSE IF doc_arg.type_name = None THEN <<>>
    ELSE IF Unwrap(code_arg.type_name) # Unwrap(doc_arg.type_name)
         THEN <<TypeMismatchFinding(entity, code_arg, doc_arg, location, doc_id)>>
         ELSE <<>>

check_type_mismatch(entity, code_arg, doc_arg, location, doc_id) ==
    IF code_arg.type_name = None THEN <<>>
    ELSE IF doc_arg.type_name = None THEN <<>>
    ELSE IF normalize_type(Unwrap(code_arg.type_name))
                # normalize_type(Unwrap(doc_arg.type_name))
         THEN <<TypeMismatchFinding(entity, code_arg, doc_arg, location, doc_id)>>
         ELSE <<>>

-----------------------------------------------------------------------------
(* validate_args, validator.rs:110-167 *)

(* entity.args.iter().find(|a| a.name == name): index of the first match, 0 if none *)
FindArg(args, name) ==
    IF \E i \in 1..Len(args) : args[i].name = name
    THEN CHOOSE i \in 1..Len(args) :
            /\ args[i].name = name
            /\ \A j \in 1..(i - 1) : args[j].name # name
    ELSE 0

GhostFinding(entity, doc_arg, location, doc_id) ==
    ValidationResult(
        "Error",
        Cat(<<Text(<<"Argumento", "fantasma:">>), SP, Q, doc_arg.name, Q, SP,
              Text(<<"esta", "documentado", "pero", "no", "existe", "en", "fn">>), SP,
              entity.name, <<".">>>>),
        Some(entity.name), Some(location), Some(doc_id),
        Some(Cat(<<<<"Elimina">>, SP, Q, doc_arg.name, Q, SP,
                   Text(<<"de", "la", "documentacion", "o", "anadelo", "a", "la",
                          "firma", "de", "la", "funcion.">>)>>)))

(* variant: the finding of an undocumented code argument is an Error *)
MissingFinding_as_error(entity, code_arg, location, doc_id) ==
    ValidationResult(
        "Error",
        Cat(<<Text(<<"El", "argumento">>), SP, Q, code_arg.name, Q, SP,
              Text(<<"existe", "en", "codigo", "pero", "falta", "en", "la",
                     "documentacion.">>)>>),
        Some(entity.name), Some(location), Some(doc_id),
        Some(Cat(<<Text(<<"Documenta", "el", "argumento">>), SP, Q, code_arg.name, Q,
                   SP, Text(<<"en", "la", "seccion">>), SP, Q, doc_id, <<"'.">>>>)))

MissingFinding(entity, code_arg, location, doc_id) ==
    ValidationResult(
        "Warning",
        Cat(<<Text(<<"El", "argumento">>), SP, Q, code_arg.name, Q, SP,
              Text(<<"existe", "en", "codigo", "pero", "falta", "en", "la",
                     "documentacion.">>)>>),
        Some(entity.name), Some(location), Some(doc_id),
        Some(Cat(<<Text(<<"Documenta", "el", "argumento">>), SP, Q, code_arg.name, Q,
                   SP, Text(<<"en", "la", "seccion">>), SP, Q, doc_id, <<"'.">>>>)))

(* variant: a code argument matches only if the whole Arg is equal (a == doc_arg) *)
RECURSIVE DocArgsLoop_whole_arg(_, _, _, _, _)
DocArgsLoop_whole_arg(entity, section, location, doc_id, i) ==
    IF i > Len(section.args) THEN <<>>
    ELSE LET doc_arg == section.args[i]
             here == IF \A j \in 1..Len(entity.args) : entity.args[j] # doc_arg
                     THEN <<GhostFinding(entity, doc_arg, location, doc_id)>>
                     ELSE <<>>
         IN  here \o DocArgsLoop_whole_arg(entity, section, location, doc_id, i + 1)

(* first loop, validator.rs:119-144 *)
RECURSIVE DocArgsLoop(_, _, _, _, _)
DocArgsLoop(entity, section, location, doc_id, i) ==
    IF i > Len(section.args) THEN <<>>
    ELSE LET doc_arg == section.args[i]
             m == FindArg(entity.args, doc_arg.name)
             here == IF m = 0
                     THEN <<GhostFinding(entity, doc_arg, location, doc_id)>>
                     ELSE check_type_mismatch(entity, entity.args[m], doc_arg,
                                              location, doc_id)
         IN  here \o DocArgsLoop(entity, section, location, doc_id, i + 1)

(* second loop, validator.rs:147-166 *)
RECURSIVE CodeArgsLoop(_, _, _, _, _)
CodeArgsLoop(entity, section, location, doc_id, i) ==
    IF i > Len(entity.args) THEN <<>>
    ELSE LET code_arg == entity.args[i]
             is_documented ==
                 \E j \in 1..Len(section.args) : section.args[j].name = code_arg.name
             here == IF ~is_documented
                     THEN <<MissingFinding(entity, code_arg, location, doc_id)>>
                     ELSE <<>>
         IN  here \o CodeArgsLoop(entity, section, location, doc_id, i + 1)

(* variant: the two loops in the other order *)
validate_args_code_first(entity, section, location) ==
    LET doc_id == UnwrapOr(entity.doc_id, <<"?">>)
    IN  CodeArgsLoop(entity, section, location, doc_id, 1)
            \o DocArgsLoop(entity, section, location, doc_id, 1)

validate_args(entity, section, location) ==
    LET doc_id == UnwrapOr(entity.doc_id, <<"?">>)
    IN  DocArgsLoop(entity, section, location, doc_id, 1)
            \o CodeArgsLoop(entity, section, location, doc_id, 1)

-----------------------------------------------------------------------------
(* validate_links, validator.rs:14-106 *)

UnlinkedFinding(entity) ==
    ValidationResult(
        "Info",
        Text(<<"Funcion", "sin", "anotacion", "@docs", "--", "no", "esta",
               "vinculada", "a", "documentacion.">>),
        Some(entity.name), Some(Location(entity)), None,
        Some(Cat(<<<<"Anade">>, SP, <<"///">>, SP, <<"@docs:">>, SP, <<"[id]">>, SP,
                   Text(<<"antes", "de", "la", "funcion", "para", "vincularla.">>)>>)))

LinkVerifiedFinding(entity, section, doc_id) ==
    ValidationResult(
        "Info",
        Cat(<<Text(<<"Enlace", "verificado:", "fn">>), SP, entity.name, SP,
              Text(<<"<->", "seccion">>), SP, Q, UnwrapOr(section.title, section.id), Q>>),
        Some(entity.name), Some(Location(entity)), Some(doc_id), None)

DocIdNotFoundFinding(entity, doc_id) ==
    ValidationResult(
        "Error",
        Cat(<<Text(<<"ID", "de", "documentacion">>), SP, Q, doc_id, Q, SP,
              Text(<<"no", "encontrado", "en", "el", "archivo", "de", "docs.">>)>>),
        Some(entity.name), Some(Location(entity)), Some(doc_id),
        Some(Cat(<<<<"Anade">>, SP, <<"<!--">>, SP, <<"@docs-id:">>, SP, doc_id, SP,
                   <<"-->">>, SP,
                   Text(<<"en", "el", "archivo", "de", "documentacion.">>)>>)))

OrphanFinding(section) ==
    ValidationResult(
        "Warning",
        Cat(<<Text(<<"Seccion", "de", "documentacion">>), SP, Q,
              UnwrapOr(section.title, section.id), Q, SP,
              Text(<<"no", "esta", "vinculada", "desde", "ninguna", "funcion.">>)>>),
        None, None, Some(section.id),
        Some(Cat(<<<<"Anade">>, SP, <<"///">>, SP, <<"@docs:">>, SP, <<"[">>,
                   section.id, <<"]">>, SP,
                   Text(<<"antes", "de", "la", "funcion", "correspondiente", "en",
                          "el", "codigo.">>)>>)))

(* variant: the lookup takes the last section that has the id *)
FindSection_last_match(sections, doc_id) ==
    IF \E i \in 1..Len(sections) : sections[i].id = doc_id
    THEN CHOOSE i \in 1..Len(sections) :
            /\ sections[i].id = doc_id
            /\ \A j \in (i + 1)..Len(sections) : sections[j].id # doc_id
    ELSE 0

(* doc_sections.iter().find(|s| &s.id == doc_id): index of the first match, 0 if none *)
FindSection(sections, doc_id) ==
    IF \E i \in 1..Len(sections) : sections[i].id = doc_id
    THEN CHOOSE i \in 1..Len(sections) :
            /\ sections[i].id = doc_id
            /\ \A j \in 1..(i - 1) : sections[j].id # doc_id
    ELSE 0

(* loop 1, validator.rs:21-30 *)
RECURSIVE UnlinkedLoop(_, _)
UnlinkedLoop(entities, i) ==
    IF i > Len(entities) THEN <<>>
    ELSE (IF entities[i].doc_id = None THEN <<UnlinkedFinding(entities[i])>> ELSE <<>>)
            \o UnlinkedLoop(entities, i + 1)

(* variant: the lookup takes the first section, whatever its id *)
LinkedEntityFindings_any_section(entity, sections) ==
    LET doc_id == Unwrap(entity.doc_id)
        m == IF sections # <<>> THEN 1 ELSE 0
    IN  IF m # 0
        THEN <<LinkVerifiedFinding(entity, sections[m], doc_id)>>
                \o (IF sections[m].args # <<>> \/ entity.args # <<>>
                    THEN validate_args(entity, sections[m], Location(entity))
                    ELSE <<>>)
        ELSE <<DocIdNotFoundFinding(entity, doc_id)>>

(* body of loop 2 for one linked entity, validator.rs:34-78 *)
LinkedEntityFindings(entity, sections) ==
    LET doc_id == Unwrap(entity.doc_id)
        m == FindSection(sections, doc_id)
    IN  IF m # 0
        THEN <<LinkVerifiedFinding(entity, sections[m], doc_id)>>
                \o (IF sections[m].args # <<>> \/ entity.args # <<>>
                    THEN validate_args(entity, sections[m], Location(entity))
                    ELSE <<>>)
        ELSE <<DocIdNotFoundFinding(entity, doc_id)>>

(* loop 2, validator.rs:33-79 *)
RECURSIVE LinkedLoop(_, _, _)
LinkedLoop(entities, sections, i) ==
    IF i > Len(entities) THEN <<>>
    ELSE (IF entities[i].doc_id # None
          THEN LinkedEntityFindings(entities[i], sections)
          ELSE <<>>)
            \o LinkedLoop(entities, sections, i + 1)

(* variant: has_link looks at the first entity only *)
RECURSIVE OrphanLoop_first_entity(_, _, _)
OrphanLoop_first_entity(entities, sections, i) ==
    IF i > Len(sections) THEN <<>>
    ELSE LET has_link ==
                 entities # <<>> /\ entities[1].doc_id = Some(sections[i].id)
         IN  (IF ~has_link THEN <<OrphanFinding(sections[i])>> ELSE <<>>)
                \o OrphanLoop_first_entity(entities, sections, i + 1)

(* loop 3, validator.rs:82-103 *)
RECURSIVE OrphanLoop(_, _, _)
OrphanLoop(entities, sections, i) ==
    IF i > Len(sections) THEN <<>>
    ELSE LET has_link ==
                 \E k \in 1..Len(entities) : entities[k].doc_id = Some(sections[i].id)
         IN  (IF ~has_link THEN <<OrphanFinding(sections[i])>> ELSE <<>>)
                \o OrphanLoop(entities, sections, i + 1)

(* variant: the list ends with the first Error *)
validate_links_stop_at_error(entities, sections) ==
    LET all == UnlinkedLoop(entities, 1)
                  \o LinkedLoop(entities, sections, 1)
                  \o OrphanLoop(entities, sections, 1)
        cut == IF \E i \in 1..Len(all) : all[i].severity = "Error"
               THEN CHOOSE i \in 1..Len(all) :
                       /\ all[i].severity = "Error"
                       /\ \A j \in 1..(i - 1) : all[j].severity # "Error"
               ELSE Len(all)
    IN  SubSeq(all, 1, cut)

validate_links(entities, sections) ==
    UnlinkedLoop(entities, 1)
        \o LinkedLoop(entities, sections, 1)
        \o OrphanLoop(entities, sections, 1)

-----------------------------------------------------------------------------
(* baseline/mod.rs *)

(* str::split_whitespace: the maximal runs of non-whitespace pieces *)
RECURSIVE SplitWhitespace(_)
SplitWhitespace(s) ==
    LET t == TrimStart(s)
        n == IF \E i \in 1..Len(t) : t[i] \in WhiteSpace
             THEN (CHOOSE i \in 1..Len(t) :
                      /\ t[i] \in WhiteSpace
                      /\ \A j \in 1..(i - 1) : t[j] \notin WhiteSpace) - 1
             ELSE Len(t)
    IN  IF t = <<>> THEN <<>>
        ELSE <<SubSeq(t, 1, n)>> \o SplitWhitespace(SubSeq(t, n + 1, Len(t)))

(* Iterator::take(n) *)
Take(seq, n) == SubSeq(seq, 1, IF Len(seq) < n THEN Len(seq) ELSE n)

(* [..].join(" ") *)
RECURSIVE JoinSpace(_)
JoinSpace(tokens) ==
    IF tokens = <<>> THEN <<>>
    ELSE IF Len(tokens) = 1 THEN tokens[1]
    ELSE tokens[1] \o SP \o JoinSpace(Tail(tokens))

(* make_fingerprint takes this many tokens, baseline/mod.rs:156 *)
FingerprintTokens == 6

(* variant: every token is kept *)
make_fingerprint_whole_message(message) == JoinSpace(SplitWhitespace(message))

(* baseline/mod.rs:153-159 *)
make_fingerprint(message) == JoinSpace(Take(SplitWhitespace(message), FingerprintTokens))

(* BaselineEntry built from a finding, baseline/mod.rs:52-57 and 130-135;
   severity.to_string() is the variant's name (types.rs:60-68) *)
EntryOf(r) ==
    [severity |-> r.severity, function_name |-> r.function_name,
     doc_id |-> r.doc_id, message_fingerprint |-> make_fingerprint(r.message)]

(* chrono_now(), baseline/mod.rs:167-173: the clock value is written to the
   file and read by nothing *)
chrono_now == <<"unix:0">>

(* variant: without the filter on Info *)
from_results_with_info(rs) ==
    [version |-> <<"1">>,
     generated_at |-> chrono_now,
     entries |-> [i \in 1..Len(rs) |-> EntryOf(rs[i])]]

(* Baseline::from_results, baseline/mod.rs:48-65 *)
from_results(rs) ==
    LET kept == SelectSeq(rs, LAMBDA r : r.severity # "Info")
    IN  [version |-> <<"1">>,
         generated_at |-> chrono_now,
         entries |-> [i \in 1..Len(kept) |-> EntryOf(kept[i])]]

(* Baseline::entry_set, baseline/mod.rs:109-111 *)
entry_set(baseline) == {baseline.entries[i] : i \in 1..Len(baseline.entries)}

(* variant: without the early return for Info *)
FilterKeeps_no_info_pass(r, known) == EntryOf(r) \notin known

(* the closure of filter_baseline, baseline/mod.rs:125-143: TRUE keeps r *)
FilterKeeps(r, known) ==
    IF r.severity = "Info" THEN TRUE
    ELSE EntryOf(r) \notin known

(* the filter over results with its counter, baseline/mod.rs:121-145 *)
RECURSIVE FilterLoop(_, _, _)
FilterLoop(rs, known, i) ==
    IF i > Len(rs) THEN [new_results |-> <<>>, filtered |-> 0]
    ELSE LET rest == FilterLoop(rs, known, i + 1)
         IN  IF FilterKeeps(rs[i], known)
             THEN [new_results |-> <<rs[i]>> \o rest.new_results,
                   filtered |-> rest.filtered]
             ELSE [new_results |-> rest.new_results,
                   filtered |-> rest.filtered + 1]

(* filter_baseline, baseline/mod.rs:116-148 *)
filter_baseline(rs, baseline) == FilterLoop(rs, entry_set(baseline), 1)

(* serde_yml.  A YAML mapping is a sequence of <<key, value>> pairs in the
   order written; a scalar carries its text and whether it is written quoted.
   The content of a file is <<document>>, or Unparsable when its text is no
   YAML document. *)
YamlNullWords == {<<"null">>, <<"~">>, <<>>}

YamlDigits == {"0", "1", "2", "3", "4", "5", "6", "7", "8", "9"}

(* a string that, written plain, would be read back as null, a boolean or a
   number is written quoted *)
NeedsQuote(s) ==
    \/ s \in YamlNullWords
    \/ s \in {<<"true">>, <<"false">>}
    \/ Len(s) = 1 /\ s[1] \in YamlDigits

(* variant: every scalar is written plain *)
Scalar_plain(s) == [quoted |-> FALSE, text |-> s]

Scalar(s) == [quoted |-> NeedsQuote(s), text |-> s]

Unparsable == <<>>

(* the values of the key in the mapping *)
Lookup(mapping, key) ==
    LET hits == SelectSeq(mapping, LAMBDA kv : kv[1] = key)
    IN  [i \in 1..Len(hits) |-> hits[i][2]]

(* variant: the doc id is never written *)
SerializeEntry_without_doc_id(e) ==
    <<<<"severity", Scalar(<<e.severity>>)>>>>
    \o (IF e.function_name = None THEN <<>>
        ELSE <<<<"function_name", Scalar(Unwrap(e.function_name))>>>>)
    \o <<<<"message_fingerprint", Scalar(e.message_fingerprint)>>>>

(* #[derive(Serialize)] of BaselineEntry, baseline/mod.rs:21-33: the two
   Option fields are left out when None (skip_serializing_if); the severity,
   a String holding the variant's name, is a text of one piece *)
SerializeEntry(e) ==
    <<<<"severity", Scalar(<<e.severity>>)>>>>
    \o (IF e.function_name = None THEN <<>>
        ELSE <<<<"function_name", Scalar(Unwrap(e.function_name))>>>>)
    \o (IF e.doc_id = None THEN <<>>
        ELSE <<<<"doc_id", Scalar(Unwrap(e.doc_id))>>>>)
    \o <<<<"message_fingerprint", Scalar(e.message_fingerprint)>>>>

(* serde_yml::to_string(&Baseline), baseline/mod.rs:36-44 and 99 *)
to_string(baseline) ==
    << << <<"version", Scalar(baseline.version)>>,
          <<"generated_at", Scalar(baseline.generated_at)>>,
          <<"entries", [i \in 1..Len(baseline.entries) |->
                           SerializeEntry(baseline.entries[i])]>> >> >>

(* a String field: exactly one value for the key, read as its text *)
HasString(mapping, key) == Len(Lookup(mapping, key)) = 1

StringField(mapping, key) == Lookup(mapping, key)[1].text

(* an Option<String> field: at most one value; no key or a plain null is None *)
HasOption(mapping, key) == Len(Lookup(mapping, key)) <= 1

OptionField(mapping, key) ==
    LET vs == Lookup(mapping, key)
    IN  IF vs = <<>> THEN None
        ELSE IF ~vs[1].quoted /\ vs[1].text \in YamlNullWords THEN None
        ELSE Some(vs[1].text)

EntryParses(m) ==
    /\ HasString(m, "severity")
    /\ HasOption(m, "function_name")
    /\ HasOption(m, "doc_id")
    /\ HasString(m, "message_fingerprint")

DeserializeEntry(m) ==
    [severity |-> StringField(m, "severity")[1],
     function_name |-> OptionField(m, "function_name"),
     doc_id |-> OptionField(m, "doc_id"),
     message_fingerprint |-> StringField(m, "message_fingerprint")]

(* serde_yml::from_str::<Baseline>, baseline/mod.rs:77: ok = FALSE is Err *)
from_str(content) ==
    IF content = Unparsable THEN [ok |-> FALSE]
    ELSE LET doc == content[1]
         IN  IF ~(HasString(doc, "version") /\ HasString(doc, "generated_at")
                  /\ Len(Lookup(doc, "entries")) = 1)
             THEN [ok |-> FALSE]
             ELSE LET es == Lookup(doc, "entries")[1]
                  IN  IF \E i \in 1..Len(es) : ~EntryParses(es[i]) THEN [ok |-> FALSE]
                      ELSE [ok |-> TRUE,
                            value |-> [version |-> StringField(doc, "version"),
                                       generated_at |-> StringField(doc, "generated_at"),
                                       entries |-> [i \in 1..Len(es) |->
                                                       DeserializeEntry(es[i])]]]

(* the file .docsguard/baseline.yaml under the project root *)
AbsentFile == [exists |-> FALSE, content |-> Unparsable]

(* std::fs::write(&path, content), baseline/mod.rs:101: the file is created
   or replaced as a whole *)
FileOf(baseline) == [exists |-> TRUE, content |-> to_string(baseline)]

(* variant: the version of the snapshot is not looked at *)
load_any_version(file) ==
    IF ~file.exists THEN [ok |-> TRUE, value |-> None]
    ELSE LET parsed == from_str(file.content)
         IN  IF ~parsed.ok THEN [ok |-> FALSE, value |-> None]
             ELSE [ok |-> TRUE, value |-> Some(parsed.value)]

(* Baseline::load, baseline/mod.rs:68-89: ok = FALSE is the Err result *)
load(file) ==
    IF ~file.exists THEN [ok |-> TRUE, value |-> None]
    ELSE LET parsed == from_str(file.content)
         IN  IF ~parsed.ok THEN [ok |-> FALSE, value |-> None]
             ELSE IF parsed.value.version # <<"1">> THEN [ok |-> FALSE, value |-> None]
             ELSE [ok |-> TRUE, value |-> Some(parsed.value)]

-----------------------------------------------------------------------------
(* The inputs: every pair of an entity list and a section list whose total
   size (entities + sections + arguments) is at most MaxWeight. *)

MaxWeight == 4

ArgNames == {<<"username">>, <<"tenant_id">>}

Ty_ref_str == <<"&", "s", "t", "r">>

Ty_String == <<"S", "t", "r", "i", "n", "g">>

Ty_Integer == <<"I", "n", "t", "e", "g", "e", "r">>

CodeTypes == {None, Some(Ty_ref_str)}

DocTypes == {None, Some(Ty_String), Some(Ty_Integer)}

CodeArgs == {Arg(n, t) : n \in ArgNames, t \in CodeTypes}

DocArgs == {Arg(n, t) : n \in ArgNames, t \in DocTypes}

DocIds == {<<"auth-login">>, <<"auth-logout">>}

(* the name and line of the i-th function of the code file: every second
   function repeats a name, as methods of two impl blocks do *)
EntityNameAt(i) == IF i % 2 = 1 THEN <<"login">> ELSE <<"logout">>

EntityLineAt(i) == 10 * i

(* the title and marker line of the i-th section of the doc file *)
SectionTitleAt(i) ==
    IF i % 3 = 1 THEN Some(<<"Login">>)
    ELSE IF i % 3 = 2 THEN None
    ELSE Some(<<"Sign", " ", "up">>)

SectionLineAt(i) == 5 * i

SeqsOfLen(S, k) == [1..k -> S]

EntitiesAt(pos, k) ==
    {CodeEntity(EntityNameAt(pos), args, d, EntityLineAt(pos)) :
        args \in SeqsOfLen(CodeArgs, k), d \in {None} \cup {Some(id) : id \in DocIds}}

SectionsAt(pos, k) ==
    {DocSection(id, SectionTitleAt(pos), args, SectionLineAt(pos)) :
        args \in SeqsOfLen(DocArgs, k), id \in DocIds}

RECURSIVE EntityLists(_, _)
EntityLists(w, pos) ==
    {<<>>} \cup UNION {{<<e>> \o rest : e \in EntitiesAt(pos, k),
                                        rest \in EntityLists(w - 1 - k, pos + 1)} :
                       k \in 0..(w - 1)}

RECURSIVE SectionLists(_, _)
SectionLists(w, pos) ==
    {<<>>} \cup UNION {{<<x>> \o rest : x \in SectionsAt(pos, k),
                                        rest \in SectionLists(w - 1 - k, pos + 1)} :
                       k \in 0..(w - 1)}

RECURSIVE Weight(_)
Weight(list) ==
    IF list = <<>> THEN 0 ELSE 1 + Len(Head(list).args) + Weight(Tail(list))

-----------------------------------------------------------------------------
(* run_check, main.rs:108-190 *)

ErrorCount(rs) == Len(SelectSeq(rs, LAMBDA r : r.severity = "Error"))

(* variant: the errors are counted before the baseline is applied *)
run_check_counts_unfiltered(entities, sections, code_ok, doc_ok, file) ==
    LET rs == validate_links(entities, sections)
        loaded == load(file)
        after == IF loaded.value # None
                 THEN filter_baseline(rs, Unwrap(loaded.value))
                 ELSE [new_results |-> rs, filtered |-> 0]
        aborted == [done |-> FALSE, results |-> <<>>, reported |-> <<>>,
                    suppressed |-> 0, baseline |-> None, exit_code |-> 1]
    IN  IF ~code_ok \/ ~doc_ok THEN aborted
        ELSE IF ~loaded.ok THEN [aborted EXCEPT !.results = rs]
        ELSE [done |-> TRUE, results |-> rs, reported |-> after.new_results,
              suppressed |-> after.filtered, baseline |-> loaded.value,
              exit_code |-> IF after.new_results = <<>> THEN 0
                            ELSE IF ErrorCount(rs) > 0 THEN 1
                            ELSE 0]

(* the command from its first line to its exit: code_ok and doc_ok say whether
   the file exists and parse_code_file / parse_markdown_file return Ok *)
run_check(entities, sections, code_ok, doc_ok, file) ==
    LET rs == validate_links(entities, sections)
        loaded == load(file)
        after == IF loaded.value # None
                 THEN filter_baseline(rs, Unwrap(loaded.value))
                 ELSE [new_results |-> rs, filtered |-> 0]
        aborted == [done |-> FALSE, results |-> <<>>, reported |-> <<>>,
                    suppressed |-> 0, baseline |-> None, exit_code |-> 1]
    IN  IF ~code_ok \/ ~doc_ok THEN aborted
        ELSE IF ~loaded.ok THEN [aborted EXCEPT !.results = rs]
        ELSE [done |-> TRUE, results |-> rs, reported |-> after.new_results,
              suppressed |-> after.filtered, baseline |-> loaded.value,
              exit_code |-> IF after.new_results = <<>> THEN 0
                            ELSE IF ErrorCount(after.new_results) > 0 THEN 1
                            ELSE 0]

(* run_baseline, baseline/mod.rs:176-208, up to the file it writes *)
run_baseline(entities, sections) ==
    FileOf(from_results(validate_links(entities, sections)))

-----------------------------------------------------------------------------
(* The state machine of the validator and the check / baseline commands *)

NoType == <<>>

FpIdle == fp_message = <<>> /\ fp_variant = <<>> /\ fingerprints = <<>>

SnapIdle == saved = <<>> /\ load_result = <<>>

HeurIdle == candidates = <<>>

MdIdle == events = <<>>

GateIdle == code_file = <<>> /\ outcome = <<>>

ScaffoldIdle ==
    dry_run = FALSE /\ force = FALSE /\ answers = <<>> /\ code_text = <<>> /\ scaffold = <<>>

WalkIdle == sibling_nodes = <<>> /\ walk_result = <<>>

DefIdle == def_line = <<>> /\ def_arg = <<>>

WatchIdle == disk = <<>> /\ channel = <<>> /\ screen = <<>> /\ registered = FALSE

ToolIdle == ScaffoldIdle /\ WalkIdle /\ DefIdle /\ WatchIdle

LaterIdle == FpIdle /\ SnapIdle /\ HeurIdle /\ MdIdle /\ GateIdle /\ ToolIdle

TypeIdle == type_in = NoType /\ type_out = NoType /\ type_out2 = NoType

Init ==
    /\ code_entities \in EntityLists(MaxWeight, 1)
    /\ doc_sections \in SectionLists(MaxWeight - Weight(code_entities), 1)
    /\ pc = "start"
    /\ results = <<>>
    /\ baseline_file = AbsentFile
    /\ reported = <<>>
    /\ suppressed = 0
    /\ exit_code = -1
    /\ in_memory = None
    /\ built_from = -1
    /\ TypeIdle
    /\ LaterIdle

(* validate_links applied to the parsed files *)
Validate ==
    /\ pc = "start"
    /\ baseline_file = AbsentFile
    /\ results' = validate_links(code_entities, doc_sections)
    /\ pc' = "validated"
    /\ UNCHANGED <<fileVars, reported, suppressed, exit_code, in_memory, built_from,
                   typeVars>>
    /\ UNCHANGED laterVars

(* the baseline command *)
RunBaseline ==
    /\ pc = "start"
    /\ ~baseline_file.exists
    /\ baseline_file' = run_baseline(code_entities, doc_sections)
    /\ UNCHANGED <<code_entities, doc_sections, pc, runVars, typeVars>>
    /\ UNCHANGED laterVars

(* the user edits the doc file between two commands: the last section goes *)
DeleteLastSection ==
    /\ pc = "start"
    /\ baseline_file.exists
    /\ doc_sections # <<>>
    /\ doc_sections' = SubSeq(doc_sections, 1, Len(doc_sections) - 1)
    /\ UNCHANGED <<code_entities, baseline_file, pc, runVars, typeVars>>
    /\ UNCHANGED laterVars

(* the snapshot with another format version in it *)
WithVersion(file, v) ==
    [file EXCEPT !.content =
        <<[i \in 1..Len(file.content[1]) |->
              IF file.content[1][i][1] = "version"
              THEN <<"version", Scalar(v)>> ELSE file.content[1][i]]>>]

(* the snapshot file is changed by hand or by a tool of another release: its
   version is no longer "1", or its text is no YAML *)
DamageSnapshot ==
    /\ pc = "start"
    /\ load(baseline_file).value # None
    /\ \/ \E v \in {<<"2">>, <<"1", ".", "0">>} :
             baseline_file' = WithVersion(baseline_file, v)
       \/ baseline_file' = [baseline_file EXCEPT !.content = Unparsable]
    /\ UNCHANGED <<code_entities, doc_sections, pc, runVars, typeVars>>
    /\ UNCHANGED laterVars

(* the check command *)
RunCheck ==
    /\ pc = "start"
    /\ \E code_ok \in BOOLEAN, doc_ok \in BOOLEAN :
          LET out == run_check(code_entities, doc_sections, code_ok, doc_ok,
                               baseline_file)
          IN  /\ pc' = IF out.done THEN "check_done" ELSE "check_aborted"
              /\ results' = out.results
              /\ reported' = out.reported
              /\ suppressed' = out.suppressed
              /\ in_memory' = out.baseline
              /\ exit_code' = out.exit_code
    /\ UNCHANGED <<fileVars, built_from, typeVars>>
    /\ UNCHANGED laterVars

Next == Validate \/ RunBaseline \/ DeleteLastSection \/ RunCheck

Spec == Init /\ [][Next]_vars

(* The baseline command, a damaged snapshot and the check command, on files
   of total size at most MaxLoadWeight *)
MaxLoadWeight == 3

InitLoad ==
    /\ code_entities \in EntityLists(MaxLoadWeight, 1)
    /\ doc_sections \in SectionLists(MaxLoadWeight - Weight(code_entities), 1)
    /\ pc = "start"
    /\ results = <<>>
    /\ baseline_file = AbsentFile
    /\ reported = <<>>
    /\ suppressed = 0
    /\ exit_code = -1
    /\ in_memory = None
    /\ built_from = -1
    /\ TypeIdle
    /\ LaterIdle

NextLoad == RunBaseline \/ DamageSnapshot \/ RunCheck

SpecLoad == InitLoad /\ [][NextLoad]_vars

-----------------------------------------------------------------------------
(* normalize_type applied to type texts *)

MaxTypeLen == 3

TypeAlphabet == {"i", "I", "8", "u", " "}

UpperChar(c) ==
    IF \E i \in 1..Len(LowerChars) : LowerChars[i] = c
    THEN UpperChars[CHOOSE i \in 1..Len(LowerChars) : LowerChars[i] = c]
    ELSE c

Capitalized(s) == [i \in 1..Len(s) |-> IF i = 1 THEN UpperChar(s[i]) ELSE s[i]]

Uppercased(s) == [i \in 1..Len(s) |-> UpperChar(s[i])]

KnownTypes ==
    StringAliases \cup NumberAliases \cup BooleanAliases
        \cup {T_uuid, <<"c", "u", "s", "t", "o", "m">>, <<"v", "e", "c">>}

(* every known type as written, capitalized, in capitals and padded with
   blanks, and every text over TypeAlphabet of at most MaxTypeLen characters *)
TypeInputs ==
    UNION {{t, Capitalized(t), Uppercased(t), <<" ">> \o t, Capitalized(t) \o <<" ">>} :
           t \in KnownTypes}
        \cup UNION {[1..n -> TypeAlphabet] : n \in 0..MaxTypeLen}

InitNormalize ==
    /\ type_in \in TypeInputs
    /\ type_out = NoType
    /\ type_out2 = NoType
    /\ pc = "type_start"
    /\ code_entities = <<>>
    /\ doc_sections = <<>>
    /\ baseline_file = AbsentFile
    /\ results = <<>>
    /\ reported = <<>>
    /\ suppressed = 0
    /\ exit_code = -1
    /\ in_memory = None
    /\ built_from = -1
    /\ LaterIdle

NormalizeOnce ==
    /\ pc = "type_start"
    /\ type_out' = normalize_type(type_in)
    /\ pc' = "normalized"
    /\ UNCHANGED <<fileVars, runVars, type_in, type_out2>>
    /\ UNCHANGED laterVars

NormalizeAgain ==
    /\ pc = "normalized"
    /\ type_out2' = normalize_type(type_out)
    /\ pc' = "renormalized"
    /\ UNCHANGED <<fileVars, runVars, type_in, type_out>>
    /\ UNCHANGED laterVars

NextNormalize == NormalizeOnce \/ NormalizeAgain

SpecNormalize == InitNormalize /\ [][NextNormalize]_vars

-----------------------------------------------------------------------------
(* from_results and filter_baseline applied to lists of findings *)

MaxFindings == 4

MsgNotFound ==
    Text(<<"ID", "de", "documentacion", "'auth-login'", "no", "encontrado", "en",
           "el", "archivo", "de", "docs.">>)

(* the same first six words, another ending *)
MsgNotFoundReworded ==
    Text(<<"ID", "de", "documentacion", "'auth-login'", "no", "encontrado", "dentro",
           "del", "markdown.">>)

(* another sixth word *)
MsgNotFoundOther ==
    Text(<<"ID", "de", "documentacion", "'auth-login'", "no", "hallado", "en",
           "el", "archivo", "de", "docs.">>)

KnownFinding ==
    ValidationResult("Error", MsgNotFound, Some(<<"login">>), None,
                     Some(<<"auth-login">>), None)

(* one finding and the findings that differ from it in one field *)
FindingUniverse ==
    { KnownFinding,
      [KnownFinding EXCEPT !.severity = "Warning"],
      [KnownFinding EXCEPT !.severity = "Info"],
      [KnownFinding EXCEPT !.function_name = None],
      [KnownFinding EXCEPT !.doc_id = None],
      [KnownFinding EXCEPT !.message = MsgNotFoundReworded],
      [KnownFinding EXCEPT !.message = MsgNotFoundOther] }

(* the entries a baseline file can hold for them, an Info entry included *)
EntryUniverse ==
    {[severity |-> f.severity, function_name |-> f.function_name, doc_id |-> f.doc_id,
      message_fingerprint |-> Text(<<"ID", "de", "documentacion", "'auth-login'", "no",
                                     IF f.message = MsgNotFoundOther
                                     THEN "hallado" ELSE "encontrado">>)] :
        f \in FindingUniverse}

SeqsUpTo(S, n) == UNION {[1..k -> S] : k \in 0..n}

InitBaseline ==
    /\ results \in SeqsUpTo(FindingUniverse, MaxFindings)
    /\ \E entries \in SeqsUpTo(EntryUniverse, MaxFindings - Len(results)) :
          in_memory = Some([version |-> <<"1">>, generated_at |-> chrono_now,
                            entries |-> entries])
    /\ pc = "bl_start"
    /\ built_from = -1
    /\ reported = <<>>
    /\ suppressed = 0
    /\ exit_code = -1
    /\ code_entities = <<>>
    /\ doc_sections = <<>>
    /\ baseline_file = AbsentFile
    /\ TypeIdle
    /\ LaterIdle

(* Baseline::from_results(&results[..k]) *)
BuildBaseline ==
    /\ pc = "bl_start"
    /\ \E k \in 0..Len(results) :
          /\ in_memory' = Some(from_results(SubSeq(results, 1, k)))
          /\ built_from' = k
    /\ pc' = "bl_built"
    /\ UNCHANGED <<fileVars, results, reported, suppressed, exit_code, typeVars>>
    /\ UNCHANGED laterVars

(* filter_baseline(&results, &baseline) *)
FilterBaseline ==
    /\ pc \in {"bl_start", "bl_built"}
    /\ LET out == filter_baseline(results, Unwrap(in_memory))
       IN  /\ reported' = out.new_results
           /\ suppressed' = out.filtered
    /\ pc' = "bl_filtered"
    /\ UNCHANGED <<fileVars, results, exit_code, in_memory, built_from, typeVars>>
    /\ UNCHANGED laterVars

NextBaseline == BuildBaseline \/ FilterBaseline

SpecBaseline == InitBaseline /\ [][NextBaseline]_vars

-----------------------------------------------------------------------------
(* core/heuristic.rs.  Names are spelled one character per piece.  A
   confidence is the fraction <<n, d>>: the f64 the code computes, 1.0 minus
   distance / length, orders and compares with 0.80 as the fraction does for
   every length below 40. *)

Min2(x, y) == IF x < y THEN x ELSE y

Max2(x, y) == IF x < y THEN y ELSE x

(* one row of the edit-distance table from the row before it *)
RECURSIVE LevRow(_, _, _, _, _)
LevRow(prev, ai, b, j, acc) ==
    IF j > Len(b) THEN acc
    ELSE LET cost == IF ai = b[j] THEN 0 ELSE 1
             v == Min2(Min2(prev[j + 1] + 1, acc[j] + 1), prev[j] + cost)
         IN  LevRow(prev, ai, b, j + 1, Append(acc, v))

RECURSIVE LevRows(_, _, _, _)
LevRows(a, b, i, prev) ==
    IF i > Len(a) THEN prev
    ELSE LevRows(a, b, i + 1, LevRow(prev, a[i], b, 1, <<prev[1] + 1>>))

(* strsim::levenshtein *)
levenshtein(a, b) == LevRows(a, b, 1, [j \in 1..(Len(b) + 1) |-> j - 1])[Len(b) + 1]

(* strsim::normalized_levenshtein: 1.0 for two empty strings, else
   1.0 - distance / longer length *)
normalized_levenshtein(a, b) ==
    IF a = <<>> /\ b = <<>> THEN <<1, 1>>
    ELSE LET longer == Max2(Len(a), Len(b))
         IN  <<longer - levenshtein(a, b), longer>>

(* f64 comparisons on the fractions *)
Gt(x, y) == x[1] * y[2] > y[1] * x[2]

Ge(x, y) == x[1] * y[2] >= y[1] * x[2]

(* MIN_CONFIDENCE = 0.80, heuristic.rs:31 *)
MIN_CONFIDENCE == <<4, 5>>

(* normalize_name, heuristic.rs:120-126 *)
normalize_name(name) ==
    LET lower == ToLowercase(name)
        replaced == [i \in 1..Len(lower) |->
                        IF lower[i] \in {"-", "_", "."} THEN " " ELSE lower[i]]
    IN  JoinSpace(SplitWhitespace(replaced))

(* compute_confidence, heuristic.rs:98-117 *)
compute_confidence(function_name, section) ==
    LET fn_normalized == normalize_name(function_name)
        id_similarity == normalized_levenshtein(fn_normalized, normalize_name(section.id))
        title_similarity ==
            IF section.title = None THEN <<0, 1>>
            ELSE normalized_levenshtein(fn_normalized, normalize_name(Unwrap(section.title)))
    IN  IF Gt(title_similarity, id_similarity) THEN title_similarity ELSE id_similarity

(* heuristic.rs:62-70 *)
CandidateLink(ei, entity, si, section, confidence) ==
    [entity_index |-> ei, function_name |-> entity.name,
     code_location |-> Location(entity), section_index |-> si,
     section_id |-> section.id,
     section_title |-> UnwrapOr(section.title, section.id),
     confidence |-> confidence]

(* variant: without the threshold *)
RECURSIVE BestMatch_no_threshold(_, _, _, _, _, _)
BestMatch_no_threshold(ei, entity, sections, unlinked_sections, k, best_match) ==
    IF k > Len(unlinked_sections) THEN best_match
    ELSE LET si == unlinked_sections[k]
             confidence == compute_confidence(entity.name, sections[si])
             better == best_match = None \/ Gt(confidence, Unwrap(best_match).confidence)
             next == IF better
                     THEN Some(CandidateLink(ei, entity, si, sections[si], confidence))
                     ELSE best_match
         IN  BestMatch_no_threshold(ei, entity, sections, unlinked_sections, k + 1, next)

(* variant: a later section of the same confidence replaces the best one *)
RECURSIVE BestMatch_last_of_equal(_, _, _, _, _, _)
BestMatch_last_of_equal(ei, entity, sections, unlinked_sections, k, best_match) ==
    IF k > Len(unlinked_sections) THEN best_match
    ELSE LET si == unlinked_sections[k]
             confidence == compute_confidence(entity.name, sections[si])
             better == best_match = None \/ Ge(confidence, Unwrap(best_match).confidence)
             next == IF Ge(confidence, MIN_CONFIDENCE) /\ better
                     THEN Some(CandidateLink(ei, entity, si, sections[si], confidence))
                     ELSE best_match
         IN  BestMatch_last_of_equal(ei, entity, sections, unlinked_sections, k + 1, next)

(* the inner loop, heuristic.rs:59-81: indices are those of the whole lists *)
RECURSIVE BestMatch(_, _, _, _, _, _)
BestMatch(ei, entity, sections, unlinked_sections, k, best_match) ==
    IF k > Len(unlinked_sections) THEN best_match
    ELSE LET si == unlinked_sections[k]
             confidence == compute_confidence(entity.name, sections[si])
             better == best_match = None \/ Gt(confidence, Unwrap(best_match).confidence)
             next == IF Ge(confidence, MIN_CONFIDENCE) /\ better
                     THEN Some(CandidateLink(ei, entity, si, sections[si], confidence))
                     ELSE best_match
         IN  BestMatch(ei, entity, sections, unlinked_sections, k + 1, next)

(* the outer loop, heuristic.rs:56-86 *)
RECURSIVE CandidateLoop(_, _, _, _, _)
CandidateLoop(entities, sections, unlinked_entities, unlinked_sections, k) ==
    IF k > Len(unlinked_entities) THEN <<>>
    ELSE LET ei == unlinked_entities[k]
         IN  BestMatch(ei, entities[ei], sections, unlinked_sections, 1, None)
             \o CandidateLoop(entities, sections, unlinked_entities, unlinked_sections,
                              k + 1)

(* slice::sort_by with b.confidence.partial_cmp(&a.confidence): stable,
   greater confidence first, heuristic.rs:88-93 *)
RECURSIVE SortByConfidence(_)
SortByConfidence(list) ==
    IF list = <<>> THEN <<>>
    ELSE LET rest == SortByConfidence(Tail(list))
             ahead == SelectSeq(rest, LAMBDA c : Gt(c.confidence, Head(list).confidence))
             behind == SelectSeq(rest, LAMBDA c : ~Gt(c.confidence, Head(list).confidence))
         IN  ahead \o <<Head(list)>> \o behind

(* find_candidates, heuristic.rs:34-94; the indices are 1-based here *)
find_candidates(entities, sections) ==
    LET unlinked_entities ==
            SelectSeq([i \in 1..Len(entities) |-> i],
                      LAMBDA i : entities[i].doc_id = None)
        unlinked_sections ==
            SelectSeq([j \in 1..Len(sections) |-> j],
                      LAMBDA j : ~\E i \in 1..Len(entities) :
                                     entities[i].doc_id = Some(sections[j].id))
    IN  SortByConfidence(
            CandidateLoop(entities, sections, unlinked_entities, unlinked_sections, 1))

-----------------------------------------------------------------------------
(* parser/doc_parser.rs.  In the text of a document the characters the
   parser looks at (backquote, parentheses, colon, asterisk, hyphen, blank,
   newline) are pieces of their own, the em dash is the piece "--", and a
   word is one piece; table headers are spelled one character per piece.
   The backquote is the piece BQ. *)

BQ == "BQ"

(* str::find(char): 0 stands for None *)
Find(s, ch) ==
    IF \E i \in 1..Len(s) : s[i] = ch
    THEN CHOOSE i \in 1..Len(s) : s[i] = ch /\ \A j \in 1..(i - 1) : s[j] # ch
    ELSE 0

From(s, i) == SubSeq(s, i, Len(s))

Upto(s, i) == SubSeq(s, 1, i)

(* str::strip_prefix(char).unwrap_or(s) *)
StripPrefixOr(s, ch) == IF s # <<>> /\ s[1] = ch THEN Tail(s) ELSE s

(* str::trim_matches(char) *)
TrimMatches(s, ch) ==
    LET keep == {i \in 1..Len(s) : s[i] # ch}
    IN  IF keep = {} THEN <<>>
        ELSE SubSeq(s, CHOOSE i \in keep : \A j \in keep : i <= j,
                       CHOOSE i \in keep : \A j \in keep : j <= i)

(* str::lines: a line ends at "\n" or at "\r" "\n" *)
RECURSIVE Lines(_)
Lines(s) ==
    IF s = <<>> THEN <<>>
    ELSE LET n == Find(s, "\n")
             cr == n >= 2 /\ s[n - 1] = "\r"
         IN  IF n = 0 THEN <<s>>
             ELSE <<Upto(s, IF cr THEN n - 2 ELSE n - 1)>> \o Lines(From(s, n + 1))

(* Option<String>::filter(|d| !d.is_empty()) *)
NonEmpty(o) == IF o # None /\ Unwrap(o) = <<>> THEN None ELSE o

DocArg(name, type_name, description) ==
    [name |-> name, type_name |-> type_name, description |-> NonEmpty(description)]

(* the type and the description after the name, shared by the list-item
   and the definition strategy, doc_parser.rs:272-285 and 373-384 *)
TypeInParens(rest) ==
    LET close_paren == Find(rest, ")")
        type_str == TrimMatches(Trim(SubSeq(rest, 2, close_paren - 1)), BQ)
        desc == StripPrefixOr(StripPrefixOr(StripPrefixOr(
                    Trim(From(rest, close_paren + 1)), ":"), "--"), "-")
    IN  IF close_paren # 0
        THEN [type_name |-> Some(type_str), description |-> Some(Trim(desc))]
        ELSE [type_name |-> None, description |-> Some(rest)]

(* extract_docs_id_from_html, doc_parser.rs:217-227 *)
extract_docs_id_from_html(html) ==
    IF ~(html # <<>> /\ html[1] = "<!--" /\ html[Len(html)] = "-->" /\ Len(html) >= 2)
    THEN None
    ELSE LET content == Trim(SubSeq(html, 2, Len(html) - 1))
         IN  IF ~(content # <<>> /\ content[1] = "@docs-id:") THEN None
             ELSE IF Trim(Tail(content)) = <<>> THEN None
             ELSE Some(Trim(Tail(content)))

(* parse_list_item_as_arg, doc_parser.rs:234-304 *)
parse_list_item_as_arg(raw) ==
    LET text == Trim(raw)
        rich == \/ (Len(text) >= 2 /\ text[1] = "*" /\ text[2] = "*")
                \/ (text[1] = "*" /\ ~(Len(text) >= 2 /\ text[2] = " "))
        stripped == Tail(text)
        end == Find(stripped, BQ)
        colon_pos == Find(text, ":")
        bare_name == Trim(Upto(text, colon_pos - 1))
        paren_pos == Find(bare_name, "(")
        split ==
            IF text[1] = BQ
            THEN [ok |-> end # 0, name_part |-> Upto(stripped, end - 1),
                  rest |-> From(stripped, end + 1)]
            ELSE IF colon_pos # 0
            THEN IF paren_pos # 0
                 THEN [ok |-> TRUE, name_part |-> Upto(text, paren_pos - 1),
                       rest |-> From(text, paren_pos)]
                 ELSE [ok |-> TRUE, name_part |-> bare_name,
                       rest |-> From(text, colon_pos)]
            ELSE [ok |-> FALSE, name_part |-> <<>>, rest |-> <<>>]
        name == Trim(split.name_part)
        rest == Trim(split.rest)
        tail == IF rest # <<>> /\ rest[1] = "(" THEN TypeInParens(rest)
                ELSE IF rest # <<>> /\ rest[1] = ":"
                THEN [type_name |-> None, description |-> Some(Trim(Tail(rest)))]
                ELSE [type_name |-> None,
                      description |-> IF rest = <<>> THEN None ELSE Some(rest)]
    IN  IF text = <<>> THEN None
        ELSE IF rich THEN None
        ELSE IF ~split.ok THEN None
        ELSE IF name = <<>> THEN None
        ELSE Some(DocArg(name, tail.type_name, tail.description))

(* parse_definition_as_arg, doc_parser.rs:354-397 *)
parse_definition_as_arg(raw) ==
    LET line == Trim(raw)
        stripped == Tail(line)
        end == Find(stripped, BQ)
        name == Trim(Upto(stripped, end - 1))
        rest == Trim(From(stripped, end + 1))
    IN  IF line = <<>> THEN None
        ELSE IF line[1] # BQ THEN None
        ELSE IF end = 0 THEN None
        ELSE IF name = <<>> \/ Find(name, " ") # 0 THEN None
        ELSE IF rest # <<>> /\ rest[1] = "("
        THEN Some(DocArg(name, TypeInParens(rest).type_name, TypeInParens(rest).description))
        ELSE IF rest # <<>> /\ rest[1] = ":"
        THEN Some(DocArg(name, None, Some(Trim(Tail(rest)))))
        ELSE None

(* the column names parse_table_row_as_arg looks for, doc_parser.rs:320-322;
   a header that contains one of the two longer description names contains
   "desc" *)
NameColumns ==
    {<<"n", "a", "m", "e">>, <<"p", "a", "r", "a", "m">>, <<"a", "r", "g">>,
     <<"n", "o", "m", "b", "r", "e">>}

TypeColumns == {<<"t", "y", "p", "e">>, <<"t", "i", "p", "o">>}

DescColumns == {<<"d", "e", "s", "c">>}

(* str::contains *)
HasSubstring(s, p) ==
    \E i \in 1..(Len(s) - Len(p) + 1) : SubSeq(s, i, i + Len(p) - 1) = p

(* the closure find_col, doc_parser.rs:313-318: 0 stands for None *)
find_col(headers, names) ==
    LET hit(i) == \E n \in names : HasSubstring(ToLowercase(headers[i]), n)
    IN  IF \E i \in 1..Len(headers) : hit(i)
        THEN CHOOSE i \in 1..Len(headers) : hit(i) /\ \A j \in 1..(i - 1) : ~hit(j)
        ELSE 0

(* parse_table_row_as_arg, doc_parser.rs:308-344; columns are 1-based here *)
parse_table_row_as_arg(headers, row) ==
    LET found == find_col(headers, NameColumns)
        name_col == IF found = 0 THEN 1 ELSE found
        type_col == find_col(headers, TypeColumns)
        desc_col == find_col(headers, DescColumns)
        name == TrimMatches(Trim(row[name_col]), BQ)
        type_name == IF type_col = 0 \/ type_col > Len(row) THEN None
                     ELSE NonEmpty(Some(TrimMatches(Trim(row[type_col]), BQ)))
        description == IF desc_col = 0 \/ desc_col > Len(row) THEN None
                       ELSE Some(Trim(row[desc_col]))
    IN  IF row = <<>> THEN None
        ELSE IF name_col > Len(row) THEN None
        ELSE IF name = <<>> THEN None
        ELSE Some(DocArg(name, type_name, description))

(* build_line_offsets, doc_parser.rs:399-407, of a source given as the byte
   lengths of its lines, each with its newline: offsets are 0-based *)
RECURSIVE build_line_offsets(_)
build_line_offsets(source) ==
    IF source = <<>> THEN <<0>>
    ELSE LET before == build_line_offsets(Upto(source, Len(source) - 1))
         IN  Append(before, before[Len(before)] + source[Len(source)])

(* offset_to_line, doc_parser.rs:410-415: binary_search gives Ok(index of the
   offset) or Err(number of smaller offsets), indices 0-based *)
offset_to_line(line_offsets, offset) ==
    IF \E k \in 1..Len(line_offsets) : line_offsets[k] = offset
    THEN (CHOOSE k \in 1..Len(line_offsets) : line_offsets[k] = offset) - 1 + 1
    ELSE Cardinality({k \in 1..Len(line_offsets) : line_offsets[k] < offset})

(* The events of pulldown-cmark's offset iterator: a kind, the text of an
   Html, Text or Code event, and range.start *)
Event(kind, text, offset) == [kind |-> kind, text |-> text, offset |-> offset]

(* the local variables of parse_markdown_source before the loop,
   doc_parser.rs:40-61 *)
ParserStart ==
    [sections |-> <<>>, current_id |-> None, current_title |-> None,
     in_heading |-> FALSE, heading_text |-> <<>>, current_args |-> <<>>,
     current_line |-> 0, in_list_item |-> FALSE, list_item_text |-> <<>>,
     in_paragraph |-> FALSE, paragraph_text |-> <<>>, table_row |-> <<>>,
     table_headers |-> <<>>, in_table_head |-> FALSE, in_table_cell |-> FALSE,
     cell_text |-> <<>>]

(* variant: the arguments of the closed section stay for the next one *)
CloseSection_keeps_args(st) ==
    IF st.current_id = None THEN st
    ELSE [st EXCEPT !.sections = Append(@, DocSection(Unwrap(st.current_id),
                                        st.current_title, st.current_args,
                                        st.current_line)),
                    !.current_id = None, !.current_title = None]

(* the section pushed when a marker or the end of the events closes the
   open one, doc_parser.rs:74-82 and 203-211 *)
CloseSection(st) ==
    IF st.current_id = None THEN st
    ELSE [st EXCEPT !.sections = Append(@, DocSection(Unwrap(st.current_id),
                                        st.current_title, st.current_args,
                                        st.current_line)),
                    !.current_id = None, !.current_title = None,
                    !.current_args = <<>>]

(* variant: a marker met while a section is open is dropped *)
OnHtml_first_marker_only(st, html, line) ==
    LET id == extract_docs_id_from_html(Trim(html))
    IN  IF id = None \/ st.current_id # None THEN st
        ELSE [st EXCEPT !.current_id = Some(Unwrap(id)), !.current_line = line]

(* Event::Html, doc_parser.rs:70-86 *)
OnHtml(st, html, line) ==
    LET id == extract_docs_id_from_html(Trim(html))
    IN  IF id = None THEN st
        ELSE [CloseSection(st) EXCEPT !.current_id = Some(Unwrap(id)),
                                      !.current_line = line]

(* variant: every heading of the section replaces the title *)
OnEndHeading_last_heading(st) ==
    IF st.current_id # None
    THEN [st EXCEPT !.in_heading = FALSE,
                    !.current_title = Some(Trim(st.heading_text))]
    ELSE [st EXCEPT !.in_heading = FALSE]

(* Event::End(TagEnd::Heading), doc_parser.rs:93-98 *)
OnEndHeading(st) ==
    IF st.current_id # None /\ st.current_title = None
    THEN [st EXCEPT !.in_heading = FALSE,
                    !.current_title = Some(Trim(st.heading_text))]
    ELSE [st EXCEPT !.in_heading = FALSE]

(* the arguments of the lines of a paragraph, doc_parser.rs:108-112 *)
RECURSIVE DefinitionArgs(_)
DefinitionArgs(lines) ==
    IF lines = <<>> THEN <<>>
    ELSE parse_definition_as_arg(lines[1]) \o DefinitionArgs(Tail(lines))

(* Event::End(TagEnd::Paragraph), doc_parser.rs:105-114 *)
OnEndParagraph(st) ==
    IF st.current_id # None /\ ~st.in_list_item
    THEN [st EXCEPT !.in_paragraph = FALSE,
                    !.current_args = @ \o DefinitionArgs(Lines(st.paragraph_text))]
    ELSE [st EXCEPT !.in_paragraph = FALSE]

(* Event::End(TagEnd::Item), doc_parser.rs:121-128 *)
OnEndItem(st) ==
    IF st.current_id # None
    THEN [st EXCEPT !.in_list_item = FALSE,
                    !.current_args = @ \o parse_list_item_as_arg(st.list_item_text)]
    ELSE [st EXCEPT !.in_list_item = FALSE]

(* Event::End(TagEnd::TableRow), doc_parser.rs:147-153 *)
OnEndTableRow(st) ==
    IF ~st.in_table_head /\ st.current_id # None /\ st.table_row # <<>>
    THEN [st EXCEPT !.current_args =
                        @ \o parse_table_row_as_arg(st.table_headers, st.table_row)]
    ELSE st

(* Event::Text, doc_parser.rs:170-180 *)
OnText(st, text) ==
    IF st.in_heading THEN [st EXCEPT !.heading_text = @ \o text]
    ELSE IF st.in_list_item THEN [st EXCEPT !.list_item_text = @ \o text]
    ELSE IF st.in_table_cell THEN [st EXCEPT !.cell_text = @ \o text]
    ELSE IF st.in_paragraph THEN [st EXCEPT !.paragraph_text = @ \o text]
    ELSE st

(* Event::Code, doc_parser.rs:182-196 *)
OnCode(st, code) ==
    IF st.in_heading THEN [st EXCEPT !.heading_text = @ \o code]
    ELSE IF st.in_list_item
    THEN [st EXCEPT !.list_item_text = @ \o <<BQ>> \o code \o <<BQ>>]
    ELSE IF st.in_table_cell THEN [st EXCEPT !.cell_text = @ \o code]
    ELSE IF st.in_paragraph
    THEN [st EXCEPT !.paragraph_text = @ \o <<BQ>> \o code \o <<BQ>>]
    ELSE st

(* the match on the event, doc_parser.rs:69-199 *)
OnEvent(st, event, line) ==
    CASE event.kind = "Html" -> OnHtml(st, event.text, line)
      [] event.kind = "StartHeading" ->
            [st EXCEPT !.in_heading = TRUE, !.heading_text = <<>>]
      [] event.kind = "EndHeading" -> OnEndHeading(st)
      [] event.kind = "StartParagraph" ->
            [st EXCEPT !.in_paragraph = TRUE, !.paragraph_text = <<>>]
      [] event.kind = "EndParagraph" -> OnEndParagraph(st)
      [] event.kind = "StartItem" ->
            [st EXCEPT !.in_list_item = TRUE, !.list_item_text = <<>>]
      [] event.kind = "EndItem" -> OnEndItem(st)
      [] event.kind = "StartTable" -> [st EXCEPT !.table_headers = <<>>]
      [] event.kind = "StartTableHead" ->
            [st EXCEPT !.in_table_head = TRUE, !.table_row = <<>>]
      [] event.kind = "EndTableHead" ->
            [st EXCEPT !.in_table_head = FALSE, !.table_headers = st.table_row,
                       !.table_row = <<>>]
      [] event.kind = "StartTableRow" -> [st EXCEPT !.table_row = <<>>]
      [] event.kind = "EndTableRow" -> OnEndTableRow(st)
      [] event.kind = "StartTableCell" ->
            [st EXCEPT !.in_table_cell = TRUE, !.cell_text = <<>>]
      [] event.kind = "EndTableCell" ->
            [st EXCEPT !.in_table_cell = FALSE,
                       !.table_row = Append(@, Trim(st.cell_text))]
      [] event.kind = "SoftBreak" ->
            IF st.in_paragraph THEN [st EXCEPT !.paragraph_text = Append(@, "\n")]
            ELSE st
      [] event.kind = "Text" -> OnText(st, event.text)
      [] event.kind = "Code" -> OnCode(st, event.text)
      [] OTHER -> st

(* the loop over the events, doc_parser.rs:66-200; current_line is a usize,
   and the test on it has the state of each step evaluated before the next *)
RECURSIVE EventLoop(_, _, _, _)
EventLoop(st, stream, line_offsets, k) ==
    IF k > Len(stream) THEN st
    ELSE LET after == OnEvent(st, stream[k],
                              offset_to_line(line_offsets, stream[k].offset))
         IN  IF after.current_line >= 0
             THEN EventLoop(after, stream, line_offsets, k + 1)
             ELSE after

(* parse_markdown_source, doc_parser.rs:36-214, from the events the parser
   gives for the source on; the source is the byte lengths of its lines *)
parse_markdown_source(source, stream) ==
    CloseSection(EventLoop(ParserStart, stream, build_line_offsets(source), 1)).sections

-----------------------------------------------------------------------------
(* make_fingerprint applied to two messages: a message of up to MaxTokens
   words in some layout of whitespace, and a variant of it *)

MaxTokens == 8

(* the words of the ghost-argument message, validator.rs:127, and of its hint *)
TokenAt(i) ==
    <<"Argumento", "fantasma:", "'tenant_id'", "esta", "documentado", "pero", "no",
      "existe", "en", "fn", "login.", "Elimina">>[i]

(* a token of several pieces, as a type name is *)
SpelledToken == <<"i", "3", "2">>

OtherToken == <<"otro">>

WordsUpTo(n) == [i \in 1..n |-> <<TokenAt(i)>>]

ReplaceAt(tokens, k, t) == [i \in 1..Len(tokens) |-> IF i = k THEN t ELSE tokens[i]]

RemoveAt(tokens, k) == SubSeq(tokens, 1, k - 1) \o SubSeq(tokens, k + 1, Len(tokens))

InsertAt(tokens, k, t) == SubSeq(tokens, 1, k - 1) \o <<t>> \o SubSeq(tokens, k, Len(tokens))

(* the token lists that differ from tokens in one place *)
TokenVariants(tokens) ==
    {tokens}
    \cup {ReplaceAt(tokens, k, OtherToken) : k \in 1..Len(tokens)}
    \cup {ReplaceAt(tokens, k, SpelledToken) : k \in 1..Len(tokens)}
    \cup {RemoveAt(tokens, k) : k \in 1..Len(tokens)}
    \cup {InsertAt(tokens, k, OtherToken) : k \in 1..(Len(tokens) + 1)}

Layouts == {"spaces", "padded", "tabs"}

RECURSIVE LaidOut(_, _)
LaidOut(tokens, layout) ==
    LET sep == IF layout = "spaces" THEN <<" ">>
               ELSE IF layout = "padded" THEN <<" ", " ">>
               ELSE <<"\t", "\n">>
        lead == IF layout = "padded" THEN <<" ">> ELSE <<>>
    IN  IF tokens = <<>> THEN lead
        ELSE lead \o Head(tokens)
             \o (IF Len(tokens) = 1 THEN (IF layout = "spaces" THEN <<>> ELSE sep)
                 ELSE sep \o LaidOut(Tail(tokens), "spaces"))

InitFingerprint ==
    /\ \E n \in 0..MaxTokens, l1 \in Layouts, l2 \in Layouts :
          \E v \in TokenVariants(WordsUpTo(n)) :
             /\ fp_message = LaidOut(WordsUpTo(n), l1)
             /\ fp_variant = LaidOut(v, l2)
    /\ fingerprints = <<>>
    /\ pc = "fp_start"
    /\ code_entities = <<>>
    /\ doc_sections = <<>>
    /\ baseline_file = AbsentFile
    /\ results = <<>>
    /\ reported = <<>>
    /\ suppressed = 0
    /\ exit_code = -1
    /\ in_memory = None
    /\ built_from = -1
    /\ TypeIdle
    /\ ToolIdle
    /\ SnapIdle /\ HeurIdle /\ MdIdle /\ GateIdle

(* make_fingerprint(&message), make_fingerprint(&variant) *)
Fingerprint ==
    /\ pc = "fp_start"
    /\ fingerprints' = <<make_fingerprint(fp_message), make_fingerprint(fp_variant)>>
    /\ pc' = "fingerprinted"
    /\ UNCHANGED <<fileVars, runVars, typeVars, fp_message, fp_variant,
                   snapVars, heurVars, mdVars, gateVars, toolVars>>

NextFingerprint == Fingerprint

SpecFingerprint == InitFingerprint /\ [][NextFingerprint]_vars

-----------------------------------------------------------------------------
(* Baseline::save and Baseline::load on one project root: up to two saves of
   baselines of up to MaxEntries entries, then a load *)

MaxEntries == 2

FpNotFound == Text(<<"ID", "de", "documentacion", "'auth-login'", "no", "encontrado">>)

FpOrphan == Text(<<"Seccion", "de", "documentacion", "'~'", "no", "esta">>)

(* entries with and without a function name and a doc id, and with names
   that YAML reads as null or as a boolean when they are written plain: a
   Rust function may be called null or true, and a doc id may be any text *)
SnapshotEntries ==
    { [severity |-> "Error", function_name |-> Some(<<"login">>),
       doc_id |-> Some(<<"auth-login">>), message_fingerprint |-> FpNotFound],
      [severity |-> "Warning", function_name |-> None,
       doc_id |-> Some(<<"~">>), message_fingerprint |-> FpOrphan],
      [severity |-> "Error", function_name |-> Some(<<"null">>),
       doc_id |-> Some(<<"true">>), message_fingerprint |-> FpNotFound],
      [severity |-> "Warning", function_name |-> None,
       doc_id |-> None, message_fingerprint |-> FpOrphan] }

SnapshotBaselines ==
    {[version |-> <<"1">>, generated_at |-> chrono_now, entries |-> es] :
        es \in SeqsUpTo(SnapshotEntries, MaxEntries)}

InitSnapshot ==
    /\ saved = <<>>
    /\ load_result = <<>>
    /\ baseline_file = AbsentFile
    /\ pc = "snap_start"
    /\ code_entities = <<>>
    /\ doc_sections = <<>>
    /\ results = <<>>
    /\ reported = <<>>
    /\ suppressed = 0
    /\ exit_code = -1
    /\ in_memory = None
    /\ built_from = -1
    /\ TypeIdle
    /\ ToolIdle
    /\ FpIdle /\ HeurIdle /\ MdIdle /\ GateIdle

(* baseline.save(project_root) *)
Save ==
    /\ pc \in {"snap_start", "saved_once"}
    /\ \E b \in SnapshotBaselines :
          /\ baseline_file' = FileOf(b)
          /\ saved' = Append(saved, b)
    /\ pc' = IF pc = "snap_start" THEN "saved_once" ELSE "saved_twice"
    /\ UNCHANGED <<code_entities, doc_sections, runVars, typeVars, load_result,
                   fpVars, heurVars, mdVars, gateVars, toolVars>>

(* Baseline::load(project_root) *)
Load ==
    /\ pc \in {"snap_start", "saved_once", "saved_twice"}
    /\ load_result' = load(baseline_file)
    /\ pc' = "loaded"
    /\ UNCHANGED <<fileVars, runVars, typeVars, saved, fpVars, heurVars, mdVars,
                   gateVars, toolVars>>

NextSnapshot == Save \/ Load

SpecSnapshot == InitSnapshot /\ [][NextSnapshot]_vars

-----------------------------------------------------------------------------
(* find_candidates applied to every list of entities and of sections of
   MaxHeurWeight elements in all *)

MaxHeurWeight == 4

N_login == <<"l", "o", "g", "i", "n">>

N_logon == <<"l", "o", "g", "o", "n">>

N_log_in == <<"l", "o", "g", "_", "i", "n">>

Id_logins == <<"l", "o", "g", "i", "n", "s">>

Id_log_in == <<"l", "o", "g", "-", "i", "n">>

Id_signup == <<"s", "i", "g", "n", "u", "p">>

Title_Login == <<"L", "o", "g", "i", "n">>

Title_Sign_up == <<"S", "i", "g", "n", " ", "u", "p">>

(* functions without a doc id, and functions linked to the sections login
   and logins *)
HeurEntities ==
    { CodeEntity(N_login, <<>>, None, 1),
      CodeEntity(N_logon, <<>>, None, 1),
      CodeEntity(N_log_in, <<>>, None, 1),
      CodeEntity(N_login, <<>>, Some(N_login), 1),
      CodeEntity(N_logon, <<>>, Some(Id_logins), 1) }

HeurSections ==
    { DocSection(N_login, None, <<>>, 1),
      DocSection(Id_logins, None, <<>>, 1),
      DocSection(Id_log_in, None, <<>>, 1),
      DocSection(Id_signup, Some(Title_Login), <<>>, 1),
      DocSection(N_logon, Some(Title_Sign_up), <<>>, 1) }

InitHeuristic ==
    /\ code_entities \in SeqsUpTo(HeurEntities, MaxHeurWeight)
    /\ doc_sections \in SeqsUpTo(HeurSections, MaxHeurWeight - Len(code_entities))
    /\ candidates = <<>>
    /\ pc = "heur_start"
    /\ baseline_file = AbsentFile
    /\ results = <<>>
    /\ reported = <<>>
    /\ suppressed = 0
    /\ exit_code = -1
    /\ in_memory = None
    /\ built_from = -1
    /\ TypeIdle
    /\ ToolIdle
    /\ FpIdle /\ SnapIdle /\ MdIdle /\ GateIdle

(* find_candidates(&code_entities, &doc_sections) *)
FindCandidates ==
    /\ pc = "heur_start"
    /\ candidates' = find_candidates(code_entities, doc_sections)
    /\ pc' = "candidates_found"
    /\ UNCHANGED <<fileVars, runVars, typeVars, fpVars, snapVars, mdVars, gateVars, toolVars>>

NextHeuristic == FindCandidates

SpecHeuristic == InitHeuristic /\ [][NextHeuristic]_vars

-----------------------------------------------------------------------------
(* parse_markdown_source applied to every document of at most MaxBlocks
   blocks.  A block is a piece of markdown: the byte lengths of its lines,
   the events pulldown-cmark gives for it (row and column of range.start
   within the block), and what the markdown says: the id of a marker, the
   text of a heading, the arguments it documents. *)

MaxBlocks == 4

Ev(kind, text, row, col) == [kind |-> kind, text |-> text, row |-> row, col |-> col]

Block(kind, lines, evs, id, title, args) ==
    [kind |-> kind, lines |-> lines, evs |-> evs, id |-> id, title |-> title,
     args |-> args]

(* <!-- @docs-id: auth-login --> *)
MarkerLogin ==
    Block("marker", <<30>>,
          << Ev("StartHtmlBlock", <<>>, 0, 0),
             Ev("Html", <<"<!--", " ", "@docs-id:", " ", "auth-login", " ", "-->", "\n">>, 0, 0),
             Ev("EndHtmlBlock", <<>>, 0, 0) >>,
          <<"auth-login">>, <<>>, <<>>)

(* <!-- @docs-id: auth-logout --> *)
MarkerLogout ==
    Block("marker", <<31>>,
          << Ev("StartHtmlBlock", <<>>, 0, 0),
             Ev("Html", <<"<!--", " ", "@docs-id:", " ", "auth-logout", " ", "-->", "\n">>, 0, 0),
             Ev("EndHtmlBlock", <<>>, 0, 0) >>,
          <<"auth-logout">>, <<>>, <<>>)

(* <!-- TODO --> *)
Comment ==
    Block("comment", <<14>>,
          << Ev("StartHtmlBlock", <<>>, 0, 0),
             Ev("Html", <<"<!--", " ", "TODO", " ", "-->", "\n">>, 0, 0),
             Ev("EndHtmlBlock", <<>>, 0, 0) >>,
          <<>>, <<>>, <<>>)

(* # Login *)
HeadingLogin ==
    Block("heading", <<8>>,
          << Ev("StartHeading", <<>>, 0, 0),
             Ev("Text", <<"Login">>, 0, 2),
             Ev("EndHeading", <<>>, 0, 0) >>,
          <<>>, <<"Login">>, <<>>)

(* ## Log out *)
HeadingLogout ==
    Block("heading", <<11>>,
          << Ev("StartHeading", <<>>, 0, 0),
             Ev("Text", <<"Log", " ", "out">>, 0, 3),
             Ev("EndHeading", <<>>, 0, 0) >>,
          <<>>, <<"Log", " ", "out">>, <<>>)

(* Signs the user in: see below.
   `username` (`string`): The name
   `password`: The secret
   and a blank line *)
Paragraph ==
    Block("paragraph", <<30, 32, 23, 1>>,
          << Ev("StartParagraph", <<>>, 0, 0),
             Ev("Text", <<"Signs", " ", "the", " ", "user", " ", "in", ":", " ",
                          "see", " ", "below.">>, 0, 0),
             Ev("SoftBreak", <<>>, 0, 29),
             Ev("Code", <<"username">>, 1, 0),
             Ev("Text", <<" ", "(">>, 1, 10),
             Ev("Code", <<"string">>, 1, 12),
             Ev("Text", <<")", ":", " ", "The", " ", "name">>, 1, 20),
             Ev("SoftBreak", <<>>, 1, 31),
             Ev("Code", <<"password">>, 2, 0),
             Ev("Text", <<":", " ", "The", " ", "secret">>, 2, 10),
             Ev("EndParagraph", <<>>, 0, 0) >>,
          <<>>, <<>>,
          << DocArg(<<"username">>, Some(<<"string">>), Some(<<"The", " ", "name">>)),
             DocArg(<<"password">>, None, Some(<<"The", " ", "secret">>)) >>)

(* - `tenant_id` (`number`): The tenant
   - token: The session token
   and a blank line *)
List ==
    Block("list", <<37, 27, 1>>,
          << Ev("StartList", <<>>, 0, 0),
             Ev("StartItem", <<>>, 0, 0),
             Ev("Code", <<"tenant_id">>, 0, 2),
             Ev("Text", <<" ", "(">>, 0, 13),
             Ev("Code", <<"number">>, 0, 15),
             Ev("Text", <<")", ":", " ", "The", " ", "tenant">>, 0, 23),
             Ev("EndItem", <<>>, 0, 0),
             Ev("StartItem", <<>>, 1, 0),
             Ev("Text", <<"token", ":", " ", "The", " ", "session", " ", "token">>, 1, 2),
             Ev("EndItem", <<>>, 1, 0),
             Ev("EndList", <<>>, 0, 0) >>,
          <<>>, <<>>,
          << DocArg(<<"tenant_id">>, Some(<<"number">>), Some(<<"The", " ", "tenant">>)),
             DocArg(<<"token">>, None, Some(<<"The", " ", "session", " ", "token">>)) >>)

(* | Name | Type | Description |
   |------|------|-------------|
   | `limit` | `number` | Page size |
   and a blank line *)
Table ==
    Block("table", <<31, 31, 35, 1>>,
          << Ev("StartTable", <<>>, 0, 0),
             Ev("StartTableHead", <<>>, 0, 0),
             Ev("StartTableCell", <<>>, 0, 1),
             Ev("Text", <<"N", "a", "m", "e">>, 0, 2),
             Ev("EndTableCell", <<>>, 0, 1),
             Ev("StartTableCell", <<>>, 0, 8),
             Ev("Text", <<"T", "y", "p", "e">>, 0, 9),
             Ev("EndTableCell", <<>>, 0, 8),
             Ev("StartTableCell", <<>>, 0, 15),
             Ev("Text", <<"D", "e", "s", "c", "r", "i", "p", "t", "i", "o", "n">>, 0, 16),
             Ev("EndTableCell", <<>>, 0, 15),
             Ev("EndTableHead", <<>>, 0, 0),
             Ev("StartTableRow", <<>>, 2, 0),
             Ev("StartTableCell", <<>>, 2, 1),
             Ev("Code", <<"limit">>, 2, 2),
             Ev("EndTableCell", <<>>, 2, 1),
             Ev("StartTableCell", <<>>, 2, 11),
             Ev("Code", <<"number">>, 2, 12),
             Ev("EndTableCell", <<>>, 2, 11),
             Ev("StartTableCell", <<>>, 2, 22),
             Ev("Text", <<"Page", " ", "size">>, 2, 23),
             Ev("EndTableCell", <<>>, 2, 22),
             Ev("EndTableRow", <<>>, 2, 0),
             Ev("EndTable", <<>>, 0, 0) >>,
          <<>>, <<>>,
          << DocArg(<<"limit">>, Some(<<"number">>), Some(<<"Page", " ", "size">>)) >>)

Blocks ==
    {MarkerLogin, MarkerLogout, Comment, HeadingLogin, HeadingLogout, Paragraph,
     List, Table}

(* the source of a document: the lines of its blocks *)
RECURSIVE SourceOf(_)
SourceOf(blocks) ==
    IF blocks = <<>> THEN <<>> ELSE blocks[1].lines \o SourceOf(Tail(blocks))

RECURSIVE Bytes(_)
Bytes(lines) == IF lines = <<>> THEN 0 ELSE lines[1] + Bytes(Tail(lines))

(* Parser::new_ext(source, options).into_offset_iter(): the events of the
   blocks, each with the byte offset of its start in the source *)
RECURSIVE OffsetIter(_, _)
OffsetIter(blocks, base) ==
    IF blocks = <<>> THEN <<>>
    ELSE LET b == blocks[1]
             placed == [k \in 1..Len(b.evs) |->
                           Event(b.evs[k].kind, b.evs[k].text,
                                 base + Bytes(Upto(b.lines, b.evs[k].row)) + b.evs[k].col)]
         IN  placed \o OffsetIter(Tail(blocks), base + Bytes(b.lines))

(* two lists in a row are left out: with only a blank line between them
   markdown reads them as one list, with other events *)
Documents ==
    {d \in SeqsUpTo(Blocks, MaxBlocks) :
        \A i \in 1..(Len(d) - 1) : ~(d[i].kind = "list" /\ d[i + 1].kind = "list")}

InitMarkdown ==
    /\ events \in Documents
    /\ pc = "md_start"
    /\ code_entities = <<>>
    /\ doc_sections = <<>>
    /\ baseline_file = AbsentFile
    /\ results = <<>>
    /\ reported = <<>>
    /\ suppressed = 0
    /\ exit_code = -1
    /\ in_memory = None
    /\ built_from = -1
    /\ TypeIdle
    /\ ToolIdle
    /\ FpIdle /\ SnapIdle /\ HeurIdle /\ GateIdle

(* parse_markdown_source(&source, path) *)
ParseMarkdown ==
    /\ pc = "md_start"
    /\ doc_sections' = parse_markdown_source(SourceOf(events), OffsetIter(events, 0))
    /\ pc' = "md_parsed"
    /\ UNCHANGED <<code_entities, baseline_file, runVars, typeVars, laterVars>>

NextMarkdown == ParseMarkdown

SpecMarkdown == InitMarkdown /\ [][NextMarkdown]_vars

-----------------------------------------------------------------------------
(* parser/code_parser.rs: parse_code_file.  A file is what the file system
   and the grammar answer for its path: whether fs::metadata succeeds, the
   length it reports, whether read_to_string succeeds, the extension of the
   path, and the result of the grammar's parse function on the content. *)

(* MAX_FILE_SIZE, code_parser.rs:39 *)
MAX_FILE_SIZE == 10 * 1024 * 1024

Ok(value) == [ok |-> TRUE, value |-> value, error |-> ""]

Err(error) == [ok |-> FALSE, value |-> <<>>, error |-> error]

(* Language::from_extension, code_parser.rs:21-35, on path.extension() *)
from_extension(extension) ==
    IF extension = None THEN Err("no extension")
    ELSE IF Unwrap(extension) \in {"ts", "tsx"} THEN Ok("TypeScript")
    ELSE IF Unwrap(extension) \in {"js", "jsx"} THEN Ok("TypeScript")
    ELSE IF Unwrap(extension) = "rs" THEN Ok("Rust")
    ELSE Err("unsupported extension")

(* variant: a file of MAX_FILE_SIZE bytes is refused *)
parse_code_file_refuses_the_limit(file) ==
    IF ~file.metadata THEN [result |-> Err("metadata"), steps |-> <<>>]
    ELSE IF file.len >= MAX_FILE_SIZE THEN [result |-> Err("too large"), steps |-> <<>>]
    ELSE IF ~file.readable THEN [result |-> Err("read"), steps |-> <<"read">>]
    ELSE IF ~from_extension(file.extension).ok
    THEN [result |-> from_extension(file.extension), steps |-> <<"read">>]
    ELSE [result |-> file.parsed,
          steps |-> <<"read", from_extension(file.extension).value>>]

(* parse_code_file, code_parser.rs:43-63: the result, and the steps taken
   on the content: "read" for read_to_string, then the grammar that parsed *)
parse_code_file(file) ==
    IF ~file.metadata THEN [result |-> Err("metadata"), steps |-> <<>>]
    ELSE IF file.len > MAX_FILE_SIZE THEN [result |-> Err("too large"), steps |-> <<>>]
    ELSE IF ~file.readable THEN [result |-> Err("read"), steps |-> <<"read">>]
    ELSE IF ~from_extension(file.extension).ok
    THEN [result |-> from_extension(file.extension), steps |-> <<"read">>]
    ELSE [result |-> file.parsed,
          steps |-> <<"read", from_extension(file.extension).value>>]

(* parse_code_file applied to files of every kind, of a size within
   MaxExcess bytes of MAX_FILE_SIZE or empty *)

MaxExcess == 2

FileSizes == {0} \cup ((MAX_FILE_SIZE - MaxExcess)..(MAX_FILE_SIZE + MaxExcess))

Extensions ==
    {None, Some("ts"), Some("tsx"), Some("js"), Some("jsx"), Some("rs"),
     Some("TS"), Some("py"), Some("md")}

(* what parse_typescript_source / parse_rust_source return *)
ParseResults ==
    {Ok(<<>>), Ok(<<CodeEntity(<<"login">>, <<>>, None, 1)>>), Err("parse")}

InitGate ==
    /\ code_file \in [metadata : BOOLEAN, len : FileSizes, readable : BOOLEAN,
                      extension : Extensions, parsed : ParseResults]
    /\ outcome = <<>>
    /\ pc = "gate_start"
    /\ code_entities = <<>>
    /\ doc_sections = <<>>
    /\ baseline_file = AbsentFile
    /\ results = <<>>
    /\ reported = <<>>
    /\ suppressed = 0
    /\ exit_code = -1
    /\ in_memory = None
    /\ built_from = -1
    /\ TypeIdle
    /\ ToolIdle
    /\ FpIdle /\ SnapIdle /\ HeurIdle /\ MdIdle

(* parse_code_file(&code_file) *)
ParseCodeFile ==
    /\ pc = "gate_start"
    /\ outcome' = parse_code_file(code_file)
    /\ code_entities' = parse_code_file(code_file).result.value
    /\ pc' = "code_parsed"
    /\ UNCHANGED <<doc_sections, baseline_file, runVars, typeVars, fpVars,
                   snapVars, heurVars, mdVars, code_file, toolVars>>

NextGate == ParseCodeFile

SpecGate == InitGate /\ [][NextGate]_vars

-----------------------------------------------------------------------------
(* interactive/mod.rs.  The text of the code file is a sequence of pieces:
   blanks, tabs, "\r" and "\n" are pieces of their own. *)

(* Vec<String>::join("\n") *)
RECURSIVE JoinLines(_)
JoinLines(lines) ==
    IF lines = <<>> THEN <<>>
    ELSE IF Len(lines) = 1 THEN lines[1]
    ELSE lines[1] \o <<"\n">> \o JoinLines(Tail(lines))

(* format!("/// @docs: [{}]", candidate.section_id), interactive/mod.rs:183 *)
Annotation(section_id) == <<"///", " ", "@docs:", " ", "[">> \o section_id \o <<"]">>

(* line.chars().take_while(|c| c.is_whitespace()), interactive/mod.rs:190 *)
Indent(line) ==
    LET solid == {i \in 1..Len(line) : line[i] \notin WhiteSpace}
    IN  IF solid = {} THEN line
        ELSE Upto(line, (CHOOSE i \in solid : \A j \in solid : i <= j) - 1)

(* the map annotations, interactive/mod.rs:170-185: the annotation of the
   last accepted candidate whose entity starts on the line (lines from 0),
   None when there is none *)
AnnotationAt(entities, accepted, i) ==
    LET on_line == {k \in 1..Len(accepted) :
                       Max2(entities[accepted[k].entity_index].line - 1, 0) = i}
    IN  IF on_line = {} THEN None
        ELSE Some(Annotation(accepted[CHOOSE k \in on_line : \A l \in on_line : l <= k].section_id))

(* the loop over the lines, interactive/mod.rs:187-194 *)
RECURSIVE OutputLines(_, _, _, _)
OutputLines(lines, entities, accepted, i) ==
    IF i >= Len(lines) THEN <<>>
    ELSE LET line == lines[i + 1]
             annotation == AnnotationAt(entities, accepted, i)
         IN  (IF annotation # None THEN <<Indent(line) \o Unwrap(annotation)>> ELSE <<>>)
             \o <<line>> \o OutputLines(lines, entities, accepted, i + 1)

(* apply_changes, interactive/mod.rs:158-206, on the text of the code file:
   the Result, and the text fs::write is given when it is called *)
apply_changes(text, entities, accepted) ==
    LET joined == JoinLines(OutputLines(Lines(text), entities, accepted, 0))
        result == IF text # <<>> /\ text[Len(text)] = "\n"
                  THEN Append(joined, "\n") ELSE joined
    IN  IF \E k \in 1..Len(accepted) : accepted[k].entity_index \notin 1..Len(entities)
        THEN [ok |-> FALSE, written |-> None]
        ELSE [ok |-> TRUE, written |-> Some(result)]

(* the loop over the candidates, interactive/mod.rs:67-103: the decision is
   Accept under force, and prompt_user's answer otherwise; an error of
   prompt_user ends the run *)
RECURSIVE DecisionLoop(_, _, _, _, _)
DecisionLoop(found, replies, forced, k, tally) ==
    IF k > Len(found) THEN tally
    ELSE LET decision == IF forced THEN "Accept" ELSE replies[k]
         IN  IF decision = "Error"
             THEN [tally EXCEPT !.failed = TRUE, !.presented = k]
             ELSE DecisionLoop(found, replies, forced, k + 1,
                     [tally EXCEPT
                        !.presented = k,
                        !.accepted = IF decision = "Accept" THEN Append(@, found[k]) ELSE @,
                        !.rejected = IF decision = "Reject" THEN @ + 1 ELSE @])

(* run_scaffold after the loop, interactive/mod.rs:105-137, from the
   candidates found and the tally of the decisions; applies says whether the
   accepted links are written *)
ScaffoldRun(text, entities, found, tally, applies) ==
    LET run == [ok |-> TRUE, original |-> text, found |-> Len(found),
                presented |-> tally.presented, summary |-> FALSE,
                accepted |-> tally.accepted, rejected |-> tally.rejected,
                skipped |-> 0, written |-> None]
        summed == [run EXCEPT !.summary = TRUE,
                              !.skipped = Len(found) - Len(tally.accepted) - tally.rejected]
    IN  IF found = <<>> THEN run
        ELSE IF tally.failed THEN [run EXCEPT !.ok = FALSE]
        ELSE IF tally.accepted = <<>> THEN summed
        ELSE IF ~applies THEN summed
        ELSE CHOOSE r \in {[summed EXCEPT !.ok = applied.ok, !.written = applied.written] :
                              applied \in {apply_changes(text, entities, tally.accepted)}} :
                TRUE

TallyStart == [failed |-> FALSE, presented |-> 0, accepted |-> <<>>, rejected |-> 0]

(* variant: the changes are applied under dry_run too *)
run_scaffold_ignores_dry_run(text, entities, sections, dry, forced, replies) ==
    CHOOSE r \in UNION {{ScaffoldRun(text, entities, found, tally, TRUE) :
                            tally \in {DecisionLoop(found, replies, forced, 1, TallyStart)}} :
                        found \in {find_candidates(entities, sections)}} : TRUE

(* run_scaffold, interactive/mod.rs:25-137, for a code file and a doc file
   that exist and parse to entities and sections: the Result, the text of
   the code file at the start, the counts of the summary (when it is
   printed), and the text given to fs::write.  The candidates and the tally
   are computed once and bound as values. *)
run_scaffold(text, entities, sections, dry, forced, replies) ==
    CHOOSE r \in UNION {{ScaffoldRun(text, entities, found, tally, ~dry) :
                            tally \in {DecisionLoop(found, replies, forced, 1, TallyStart)}} :
                        found \in {find_candidates(entities, sections)}} : TRUE

(* run_scaffold applied to code files of two functions, with every choice of
   flags, of sections and of MaxAnswers answers of the user *)

MaxAnswers == 2

Fn(name) == <<"function", " ", name, " ", "{}">>

(* a code file: its text and the entities parse_code_file finds in it *)
CodeFile(text, entities) == [text |-> text, entities |-> entities]

ScaffoldFiles ==
    { \* two functions on two lines, the second one indented
      CodeFile(Fn("login()") \o <<"\n", " ", " ">> \o Fn("logon()") \o <<"\n">>,
               << CodeEntity(N_login, <<>>, None, 1), CodeEntity(N_logon, <<>>, None, 2) >>),
      \* two functions on one line, no final newline
      CodeFile(Fn("login()") \o <<" ">> \o Fn("logon()"),
               << CodeEntity(N_login, <<>>, None, 1), CodeEntity(N_logon, <<>>, None, 1) >>),
      \* lines that end in "\r" "\n", a blank line between the functions
      CodeFile(Fn("login()") \o <<"\r", "\n", "\r", "\n">> \o Fn("logon()") \o <<"\r", "\n">>,
               << CodeEntity(N_login, <<>>, None, 1), CodeEntity(N_logon, <<>>, None, 3) >>),
      \* the first function is linked already, the second is indented by a tab
      CodeFile(<<"///", " ", "@docs:", " ", "[", "login", "]", "\n">> \o Fn("login()")
                  \o <<"\n", "\t">> \o Fn("logon()"),
               << CodeEntity(N_login, <<>>, Some(N_login), 2),
                  CodeEntity(N_logon, <<>>, None, 3) >>) }

ScaffoldSections ==
    { DocSection(N_login, None, <<>>, 1),
      DocSection(N_logon, Some(Title_Sign_up), <<>>, 1),
      DocSection(Id_signup, None, <<>>, 1) }

Decisions == {"Accept", "Reject", "Skip", "Error"}

InitScaffold ==
    /\ \E f \in ScaffoldFiles : code_text = f.text /\ code_entities = f.entities
    /\ doc_sections \in SeqsUpTo(ScaffoldSections, 2)
    /\ dry_run \in BOOLEAN
    /\ force \in BOOLEAN
    /\ answers \in SeqsOfLen(Decisions, MaxAnswers)
    /\ scaffold = <<>>
    /\ pc = "scaffold_start"
    /\ baseline_file = AbsentFile
    /\ results = <<>>
    /\ reported = <<>>
    /\ suppressed = 0
    /\ exit_code = -1
    /\ in_memory = None
    /\ built_from = -1
    /\ TypeIdle
    /\ FpIdle /\ SnapIdle /\ HeurIdle /\ MdIdle /\ GateIdle
    /\ WalkIdle /\ DefIdle /\ WatchIdle

(* run_scaffold(&code_file, &doc_file, dry_run, force) *)
RunScaffold ==
    /\ pc = "scaffold_start"
    /\ scaffold' = run_scaffold(code_text, code_entities, doc_sections, dry_run,
                                force, answers)
    /\ code_text' = IF scaffold'.written # None THEN Unwrap(scaffold'.written)
                    ELSE code_text
    /\ pc' = "scaffold_done"
    /\ UNCHANGED <<fileVars, runVars, typeVars, fpVars, snapVars, heurVars, mdVars,
                   gateVars, dry_run, force, answers, walkVars, defVars, watchVars>>

NextScaffold == RunScaffold

SpecScaffold == InitScaffold /\ [][NextScaffold]_vars

-----------------------------------------------------------------------------
(* parser/code_parser.rs: find_docs_annotation.  A node of the syntax tree
   is its kind, its start row and its text; the text of a comment is a
   sequence of pieces, "///", "//", "[" and "]" being pieces of their own. *)

Node(kind, row, text) == [kind |-> kind, row |-> row, text |-> text]

(* extract_docs_id_from_comment, code_parser.rs:119-145 *)
extract_docs_id_from_comment(comment) ==
    LET trimmed == Trim(comment)
        slashes == trimmed # <<>> /\ trimmed[1] \in {"///", "//"}
        content == Trim(Tail(trimmed))
        id_part == Trim(Tail(content))
        id == IF Len(id_part) >= 1 /\ id_part[1] = "[" /\ id_part[Len(id_part)] = "]"
              THEN Trim(SubSeq(id_part, 2, Len(id_part) - 1))
              ELSE id_part
    IN  IF ~slashes THEN None
        ELSE IF ~(content # <<>> /\ content[1] = "@docs:") THEN None
        ELSE IF id = <<>> THEN None
        ELSE Some(id)

(* the loop of find_docs_annotation over siblings.iter().rev(),
   code_parser.rs:86-113, at the k-th sibling *)
RECURSIVE SiblingLoop(_, _, _, _, _)
SiblingLoop(siblings, func_start, comment_kind, k, prev_row) ==
    IF k = 0 THEN None
    ELSE LET sibling == siblings[k]
             id == extract_docs_id_from_comment(sibling.text)
         IN  IF sibling.row >= func_start
             THEN SiblingLoop(siblings, func_start, comment_kind, k - 1, prev_row)
             ELSE IF Max2(prev_row - sibling.row, 0) > 2 THEN None
             ELSE IF sibling.kind = comment_kind /\ id # None THEN id
             ELSE IF sibling.kind # comment_kind THEN None
             ELSE SiblingLoop(siblings, func_start, comment_kind, k - 1, sibling.row)

(* find_docs_annotation, code_parser.rs:70-116: siblings are the children of
   the parent node, func_start the start row of the function *)
find_docs_annotation(siblings, func_start, comment_kind) ==
    SiblingLoop(siblings, func_start, comment_kind, Len(siblings), func_start)

(* find_docs_annotation applied to the last of up to MaxSiblings + 1
   children of a node: comments and statements, each 0 to 3 rows above the
   start of the next child (a statement may start on the next child's row, a
   line comment may not) *)

MaxSiblings == 3

CommentTexts ==
    { <<"///", " ", "@docs:", " ", "[", "auth-login", "]">>,
      <<"//", " ", "@docs:", " ", "auth-logout">>,
      <<"//", " ", "helper">> }

(* a child before the function: its kind, its text, and how many rows
   above the next child it starts *)
ChildrenAbove ==
    [kind : {"comment"}, text : CommentTexts, above : 1..3]
        \cup [kind : {"statement"}, text : {<<"const", " ", "x">>}, above : 0..3]

RECURSIVE RowsAbove(_, _)
RowsAbove(children, k) ==
    IF k > Len(children) THEN 0 ELSE children[k].above + RowsAbove(children, k + 1)

(* the children placed on their rows, the function last *)
Placed(children) ==
    [k \in 1..(Len(children) + 1) |->
        IF k <= Len(children)
        THEN Node(children[k].kind, RowsAbove(children, 1) - RowsAbove(children, k),
                  children[k].text)
        ELSE Node("function_declaration", RowsAbove(children, 1), <<"function", " ", "login()">>)]

InitWalk ==
    /\ \E children \in SeqsUpTo(ChildrenAbove, MaxSiblings) :
          sibling_nodes = Placed(children)
    /\ walk_result = <<>>
    /\ pc = "walk_start"
    /\ code_entities = <<>>
    /\ doc_sections = <<>>
    /\ baseline_file = AbsentFile
    /\ results = <<>>
    /\ reported = <<>>
    /\ suppressed = 0
    /\ exit_code = -1
    /\ in_memory = None
    /\ built_from = -1
    /\ TypeIdle
    /\ FpIdle /\ SnapIdle /\ HeurIdle /\ MdIdle /\ GateIdle
    /\ ScaffoldIdle /\ DefIdle /\ WatchIdle

(* find_docs_annotation(&func_node, source, &parent_node, "comment") *)
FindDocsAnnotation ==
    /\ pc = "walk_start"
    /\ walk_result' = <<find_docs_annotation(sibling_nodes,
                           sibling_nodes[Len(sibling_nodes)].row, "comment")>>
    /\ pc' = "walked"
    /\ UNCHANGED <<fileVars, runVars, typeVars, fpVars, snapVars, heurVars, mdVars,
                   gateVars, scaffoldVars, sibling_nodes, defVars, watchVars>>

NextWalk == FindDocsAnnotation

SpecWalk == InitWalk /\ [][NextWalk]_vars

-----------------------------------------------------------------------------
(* parse_definition_as_arg applied to lines made of a name, a type in
   parentheses, a separator and a description, each in several forms or
   absent, with up to MaxPad blanks before and between them *)

MaxPad == 1

Pads == {[i \in 1..n |-> " "] : n \in 0..MaxPad}

NameForms ==
    { <<BQ, "limit", BQ>>, <<BQ, " ", "limit", BQ>>, <<BQ, "page", " ", "limit", BQ>>,
      <<BQ, BQ>>, <<BQ, "limit">>, <<"limit">>, <<"Note">> }

TypeForms ==
    { <<>>, <<"(", "number", ")">>, <<"(", BQ, "number", BQ, ")">>,
      <<"(", "see", " ", "below">>, <<"(", ")">> }

SeparatorForms == { <<>>, <<":">>, <<"--">>, <<"-">> }

DescriptionForms ==
    { <<>>, <<" ", "Page", " ", "size">>, <<"is", " ", "required.">> }

DefinitionLines ==
    { lead \o name \o gap \o type \o gap2 \o sep \o desc :
        lead \in Pads, name \in NameForms, gap \in Pads, type \in TypeForms,
        gap2 \in Pads, sep \in SeparatorForms, desc \in DescriptionForms }

InitDefinition ==
    /\ def_line \in DefinitionLines
    /\ def_arg = <<>>
    /\ pc = "def_start"
    /\ code_entities = <<>>
    /\ doc_sections = <<>>
    /\ baseline_file = AbsentFile
    /\ results = <<>>
    /\ reported = <<>>
    /\ suppressed = 0
    /\ exit_code = -1
    /\ in_memory = None
    /\ built_from = -1
    /\ TypeIdle
    /\ FpIdle /\ SnapIdle /\ HeurIdle /\ MdIdle /\ GateIdle
    /\ ScaffoldIdle /\ WalkIdle /\ WatchIdle

(* parse_definition_as_arg(line) *)
ParseDefinition ==
    /\ pc = "def_start"
    /\ def_arg' = <<parse_definition_as_arg(def_line)>>
    /\ pc' = "def_parsed"
    /\ UNCHANGED <<fileVars, runVars, typeVars, fpVars, snapVars, heurVars, mdVars,
                   gateVars, scaffoldVars, walkVars, def_line, watchVars>>

NextDefinition == ParseDefinition

SpecDefinition == InitDefinition /\ [][NextDefinition]_vars

-----------------------------------------------------------------------------
(* parse_markdown_source applied to a marker followed by a list of up to
   MaxItems bullets.  A bullet is its lines, the events pulldown-cmark gives
   for it (emphasis is an event pair around the emphasized text, whose
   asterisks are in no Text event), and what the markdown says: whether the
   bullet is a callout and the argument name it documents. *)

MaxItems == 3

Bullet(lines, evs, callout, name) ==
    [lines |-> lines, evs |-> evs, callout |-> callout, name |-> name]

(* - **Note**: Use HTTPS *)
BoldCallout ==
    Bullet(<<22>>,
           << Ev("StartItem", <<>>, 0, 0),
              Ev("StartStrong", <<>>, 0, 2),
              Ev("Text", <<"Note">>, 0, 4),
              Ev("EndStrong", <<>>, 0, 2),
              Ev("Text", <<":", " ", "Use", " ", "HTTPS">>, 0, 10),
              Ev("EndItem", <<>>, 0, 0) >>,
           TRUE, None)

(* - *Tip*: Cache it *)
ItalicCallout ==
    Bullet(<<19>>,
           << Ev("StartItem", <<>>, 0, 0),
              Ev("StartEmphasis", <<>>, 0, 2),
              Ev("Text", <<"Tip">>, 0, 3),
              Ev("EndEmphasis", <<>>, 0, 2),
              Ev("Text", <<":", " ", "Cache", " ", "it">>, 0, 7),
              Ev("EndItem", <<>>, 0, 0) >>,
           TRUE, None)

(* - limit: Page size *)
NameBullet ==
    Bullet(<<19>>,
           << Ev("StartItem", <<>>, 0, 0),
              Ev("Text", <<"limit", ":", " ", "Page", " ", "size">>, 0, 2),
              Ev("EndItem", <<>>, 0, 0) >>,
           FALSE, Some(<<"limit">>))

(* - offset (number): First row *)
NameTypeBullet ==
    Bullet(<<29>>,
           << Ev("StartItem", <<>>, 0, 0),
              Ev("Text", <<"offset", " ", "(", "number", ")", ":", " ", "First", " ", "row">>, 0, 2),
              Ev("EndItem", <<>>, 0, 0) >>,
           FALSE, Some(<<"offset">>))

(* - `order` (`string`): Sort order *)
QuotedTypeBullet ==
    Bullet(<<33>>,
           << Ev("StartItem", <<>>, 0, 0),
              Ev("Code", <<"order">>, 0, 2),
              Ev("Text", <<" ", "(">>, 0, 9),
              Ev("Code", <<"string">>, 0, 11),
              Ev("Text", <<")", ":", " ", "Sort", " ", "order">>, 0, 19),
              Ev("EndItem", <<>>, 0, 0) >>,
           FALSE, Some(<<"order">>))

(* - `cursor` *)
QuotedBullet ==
    Bullet(<<11>>,
           << Ev("StartItem", <<>>, 0, 0),
              Ev("Code", <<"cursor">>, 0, 2),
              Ev("EndItem", <<>>, 0, 0) >>,
           FALSE, Some(<<"cursor">>))

(* - user: The user
     - name: The name      (a bullet nested in the bullet above) *)
NestedBullet ==
    Bullet(<<17, 19>>,
           << Ev("StartItem", <<>>, 0, 0),
              Ev("Text", <<"user", ":", " ", "The", " ", "user">>, 0, 2),
              Ev("StartList", <<>>, 1, 2),
              Ev("StartItem", <<>>, 1, 2),
              Ev("Text", <<"name", ":", " ", "The", " ", "name">>, 1, 4),
              Ev("EndItem", <<>>, 1, 2),
              Ev("EndList", <<>>, 1, 2),
              Ev("EndItem", <<>>, 0, 0) >>,
           FALSE, Some(<<"user">>))

Bullets ==
    {BoldCallout, ItalicCallout, NameBullet, NameTypeBullet, QuotedTypeBullet,
     QuotedBullet, NestedBullet}

(* the events of the bullets, their rows counted from the start of the list *)
RECURSIVE BulletEvents(_, _)
BulletEvents(items, row) ==
    IF items = <<>> THEN <<>>
    ELSE [k \in 1..Len(items[1].evs) |->
             [items[1].evs[k] EXCEPT !.row = @ + row]]
         \o BulletEvents(Tail(items), row + Len(items[1].lines))

(* the list of the bullets, a blank line after it *)
ListOf(items) ==
    [kind |-> "list", lines |-> SourceOf(items) \o <<1>>,
     evs |-> <<Ev("StartList", <<>>, 0, 0)>> \o BulletEvents(items, 0)
                \o <<Ev("EndList", <<>>, 0, 0)>>,
     id |-> <<>>, title |-> <<>>, args |-> <<>>, items |-> items]

InitLists ==
    /\ \E n \in 1..MaxItems : \E items \in SeqsOfLen(Bullets, n) :
          events = <<MarkerLogin, ListOf(items)>>
    /\ pc = "md_start"
    /\ code_entities = <<>>
    /\ doc_sections = <<>>
    /\ baseline_file = AbsentFile
    /\ results = <<>>
    /\ reported = <<>>
    /\ suppressed = 0
    /\ exit_code = -1
    /\ in_memory = None
    /\ built_from = -1
    /\ TypeIdle
    /\ FpIdle /\ SnapIdle /\ HeurIdle /\ GateIdle
    /\ ToolIdle

SpecLists == InitLists /\ [][NextMarkdown]_vars

-----------------------------------------------------------------------------
(* watch/mod.rs.  The content of a file is its version, which every write
   raises by one, and its state: "ok", "bad" (the parser refuses it) or
   "gone" (deleted).  The terminal shows the outcome of the last validation
   and the versions it read, None for a file the validation did not get
   to.  The channel carries, in order, what the debouncer sent: "code",
   "doc" or "other" for events of that path, "errors" for Err(errors). *)

MaxEdits == 4

WatchedFile(v, state) == [v |-> v, state |-> state]

Shown(what, code_v, doc_v) == [outcome |-> what, code |-> code_v, doc |-> doc_v]

(* variant: a parse error is returned to run_watch *)
clear_and_validate_returns_parse_errors(files) ==
    IF files.code.state # "ok"
    THEN [ok |-> FALSE, shown |-> Shown("code_error", Some(files.code.v), None)]
    ELSE IF files.doc.state # "ok"
    THEN [ok |-> FALSE, shown |-> Shown("doc_error", Some(files.code.v), Some(files.doc.v))]
    ELSE [ok |-> TRUE, shown |-> Shown("results", Some(files.code.v), Some(files.doc.v))]

(* clear_and_validate, watch/mod.rs:89-145: what it prints, and whether it
   returns Ok *)
clear_and_validate(files) ==
    IF files.code.state # "ok"
    THEN [ok |-> TRUE, shown |-> Shown("code_error", Some(files.code.v), None)]
    ELSE IF files.doc.state # "ok"
    THEN [ok |-> TRUE, shown |-> Shown("doc_error", Some(files.code.v), Some(files.doc.v))]
    ELSE [ok |-> TRUE, shown |-> Shown("results", Some(files.code.v), Some(files.doc.v))]

(* the terminal after clear_and_validate: the screen is cleared, the outcome
   printed; handled keeps the kinds of message the loop has handled since
   run_watch started *)
Terminal(shown, note, handled) == [shown |-> shown, note |-> note, handled |-> handled]

(* the watcher thread sends a message if the watcher is registered and the
   channel is open *)
Sent(msg) ==
    IF registered /\ channel.open
    THEN [channel EXCEPT !.queue = Append(@, msg)]
    ELSE channel

Running == pc \in {"watch_start", "watch_initial", "watch_register", "watch_loop"}

InitWatch ==
    /\ \E cs \in {"ok", "bad", "gone"}, ds \in {"ok", "bad", "gone"} :
          disk = [code |-> WatchedFile(0, cs), doc |-> WatchedFile(0, ds), edits |-> 0]
    /\ channel = [queue |-> <<>>, open |-> TRUE]
    /\ screen = Terminal(Shown("nothing", None, None), "", {})
    /\ registered = FALSE
    /\ pc = "watch_start"
    /\ code_entities = <<>>
    /\ doc_sections = <<>>
    /\ baseline_file = AbsentFile
    /\ results = <<>>
    /\ reported = <<>>
    /\ suppressed = 0
    /\ exit_code = -1
    /\ in_memory = None
    /\ built_from = -1
    /\ TypeIdle
    /\ FpIdle /\ SnapIdle /\ HeurIdle /\ MdIdle /\ GateIdle
    /\ ScaffoldIdle /\ WalkIdle /\ DefIdle

watchRest ==
    <<fileVars, runVars, typeVars, fpVars, snapVars, heurVars, mdVars, gateVars,
      scaffoldVars, walkVars, defVars>>

(* run_watch, watch/mod.rs:18-31: both files must exist *)
WatchStart ==
    /\ pc = "watch_start"
    /\ pc' = IF disk.code.state = "gone" \/ disk.doc.state = "gone"
             THEN "watch_failed" ELSE "watch_initial"
    /\ UNCHANGED <<watchVars, watchRest>>

(* the initial validation, watch/mod.rs:34-36 *)
InitialValidation ==
    /\ pc = "watch_initial"
    /\ LET out == clear_and_validate(disk)
       IN  /\ screen' = Terminal(out.shown, IF out.ok THEN "watching" ELSE "",
                                 screen.handled)
           /\ pc' = IF out.ok THEN "watch_register" ELSE "watch_failed"
    /\ UNCHANGED <<disk, channel, registered, watchRest>>

(* the channel, the debouncer and the watches on the parent directories,
   watch/mod.rs:38-50; new_debouncer and watch may fail *)
Register ==
    /\ pc = "watch_register"
    /\ \/ registered' = TRUE /\ pc' = "watch_loop"
       \/ registered' = FALSE /\ pc' = "watch_failed"
    /\ UNCHANGED <<disk, channel, screen, watchRest>>

(* one turn of the loop, watch/mod.rs:52-83: rx.recv() gives the oldest
   message, and Err once the channel is empty and closed *)
Receive ==
    /\ pc = "watch_loop"
    /\ \/ /\ channel.queue # <<>>
          /\ channel' = [channel EXCEPT !.queue = Tail(@)]
          /\ LET msg == Head(channel.queue)
                 out == clear_and_validate(disk)
             IN  IF msg \in {"code", "doc"}
                 THEN IF disk.code.state = "gone"
                      THEN /\ screen' = [screen EXCEPT !.note = "code_deleted",
                                                       !.handled = @ \cup {"deleted"}]
                           /\ pc' = "watch_loop"
                      ELSE IF disk.doc.state = "gone"
                      THEN /\ screen' = [screen EXCEPT !.note = "doc_deleted",
                                                       !.handled = @ \cup {"deleted"}]
                           /\ pc' = "watch_loop"
                      ELSE /\ screen' =
                                Terminal(out.shown, IF out.ok THEN "watching" ELSE "",
                                         screen.handled \cup
                                            (IF out.shown.outcome = "results"
                                             THEN {} ELSE {"parse_error"}))
                           /\ pc' = IF out.ok THEN "watch_loop" ELSE "watch_failed"
                 ELSE IF msg = "errors"
                 THEN /\ screen' = [screen EXCEPT !.note = "watcher_errors",
                                                  !.handled = @ \cup {"watcher_error"}]
                      /\ pc' = "watch_loop"
                 ELSE /\ screen' = [screen EXCEPT !.handled = @ \cup {"other_path"}]
                      /\ pc' = "watch_loop"
       \/ /\ channel.queue = <<>>
          /\ ~channel.open
          /\ pc' = "watch_done"
          /\ UNCHANGED <<channel, screen>>
    /\ UNCHANGED <<disk, registered, watchRest>>

(* somebody writes the code file or the doc file, or creates it again *)
Modify ==
    /\ Running
    /\ disk.edits < MaxEdits
    /\ \E f \in {"code", "doc"}, state \in {"ok", "bad"} :
          /\ disk' = [disk EXCEPT ![f] = WatchedFile(@.v + 1, state), !.edits = @ + 1]
          /\ channel' = Sent(f)
    /\ UNCHANGED <<pc, screen, registered, watchRest>>

(* somebody deletes the code file or the doc file *)
Delete ==
    /\ Running
    /\ disk.edits < MaxEdits
    /\ \E f \in {"code", "doc"} :
          /\ disk[f].state # "gone"
          /\ disk' = [disk EXCEPT ![f].state = "gone", !.edits = @ + 1]
          /\ channel' = Sent(f)
    /\ UNCHANGED <<pc, screen, registered, watchRest>>

(* another file of a watched directory changes *)
OtherPathEvent ==
    /\ Running
    /\ disk.edits < MaxEdits
    /\ registered /\ channel.open
    /\ disk' = [disk EXCEPT !.edits = @ + 1]
    /\ channel' = Sent("other")
    /\ UNCHANGED <<pc, screen, registered, watchRest>>

(* the watcher reports errors *)
WatcherError ==
    /\ Running
    /\ disk.edits < MaxEdits
    /\ registered /\ channel.open
    /\ disk' = [disk EXCEPT !.edits = @ + 1]
    /\ channel' = Sent("errors")
    /\ UNCHANGED <<pc, screen, registered, watchRest>>

(* the sending side of the channel goes away *)
CloseChannel ==
    /\ Running
    /\ registered /\ channel.open
    /\ channel' = [channel EXCEPT !.open = FALSE]
    /\ UNCHANGED <<pc, disk, screen, registered, watchRest>>

NextWatch ==
    \/ WatchStart \/ InitialValidation \/ Register \/ Receive
    \/ Modify \/ Delete \/ OtherPathEvent \/ WatcherError \/ CloseChannel

SpecWatch == InitWatch /\ [][NextWatch]_vars

(* run_watch is one thread that runs to completion: each of its steps is
   taken once it can be; nothing is assumed of the file system and the
   watcher *)
SpecWatchFair ==
    /\ SpecWatch
    /\ WF_vars(WatchStart) /\ WF_vars(InitialValidation)
    /\ WF_vars(Register) /\ WF_vars(Receive)

-----------------------------------------------------------------------------
(* Vocabulary of the properties of validate_links *)

(* validate_links has been applied to code_entities and doc_sections *)
Computed == pc \in {"validated", "check_done"}

StartsWith(s, p) == Len(s) >= Len(p) /\ SubSeq(s, 1, Len(p)) = p

Contains(s, p) == \E i \in 1..(Len(s) - Len(p) + 1) : SubSeq(s, i, i + Len(p) - 1) = p

Idx(n) == [i \in 1..n |-> i]

Referenced(id) == \E k \in 1..Len(code_entities) : code_entities[k].doc_id = Some(id)

HasSection(id) == \E j \in 1..Len(doc_sections) : doc_sections[j].id = id

UnlinkedIdx ==
    SelectSeq(Idx(Len(code_entities)), LAMBDA k : code_entities[k].doc_id = None)

LinkedIdx ==
    SelectSeq(Idx(Len(code_entities)), LAMBDA k : code_entities[k].doc_id # None)

OrphanIdx ==
    SelectSeq(Idx(Len(doc_sections)), LAMBDA j : ~Referenced(doc_sections[j].id))

(* the linked entities whose doc id is the id of some section *)
PairedIdx ==
    SelectSeq(LinkedIdx, LAMBDA k : HasSection(Unwrap(code_entities[k].doc_id)))

(* the section an entity is linked with: the first one that has its doc id *)
SectionOf(k) ==
    doc_sections[CHOOSE j \in 1..Len(doc_sections) :
                    /\ doc_sections[j].id = Unwrap(code_entities[k].doc_id)
                    /\ \A h \in 1..(j - 1) :
                          doc_sections[h].id # Unwrap(code_entities[k].doc_id)]

IsUnlinkedInfo(f) == f.severity = "Info" /\ StartsWith(f.message, <<"Funcion">>)

IsLinkVerified(f) ==
    f.severity = "Info" /\ StartsWith(f.message, Text(<<"Enlace", "verificado:">>))

IsDocIdNotFound(f) ==
    f.severity = "Error" /\ Contains(f.message, Text(<<"no", "encontrado">>))

IsLinkFinding(f) == IsLinkVerified(f) \/ IsDocIdNotFound(f)

IsGhost(f) ==
    f.severity = "Error" /\ StartsWith(f.message, Text(<<"Argumento", "fantasma:">>))

IsMissing(f) == f.severity = "Warning" /\ Contains(f.message, <<"falta">>)

IsMismatch(f) ==
    f.severity = "Warning" /\ StartsWith(f.message, Text(<<"Type", "mismatch">>))

IsArgFinding(f) == IsGhost(f) \/ IsMissing(f) \/ IsMismatch(f)

IsOrphan(f) ==
    f.severity = "Warning" /\ Contains(f.message, Text(<<"no", "esta", "vinculada">>))

(* the findings that carry the location of the k-th entity, in result order *)
FindingsOf(k) ==
    SelectSeq(results, LAMBDA f : f.code_location = Some(Location(code_entities[k])))

(* the position in code_entities of the entity a finding is located at *)
EntityAt(f) ==
    CHOOSE k \in 1..Len(code_entities) : f.code_location = Some(Location(code_entities[k]))

ArgNamesOf(args) == {args[i].name : i \in 1..Len(args)}

-----------------------------------------------------------------------------
(* C1: validate_links returns three consecutive groups that never interleave:
   one Info per entity without a doc id, in entity order; then, per entity
   with a doc id and in entity order, its link finding directly followed by
   that entity's argument findings; last one Warning per unreferenced section,
   in section order.  Every group is complete, whatever Errors precede it. *)
C1_ThreeGroupsInOrder ==
    Computed =>
        LET n1 == Len(UnlinkedIdx)
            n3 == Len(OrphanIdx)
            n == Len(results)
            Middle == (n1 + 1)..(n - n3)
        IN  /\ n >= n1 + Len(LinkedIdx) + n3
            /\ \A i \in 1..n1 :
                  /\ IsUnlinkedInfo(results[i])
                  /\ results[i].function_name = Some(code_entities[UnlinkedIdx[i]].name)
                  /\ results[i].code_location
                        = Some(Location(code_entities[UnlinkedIdx[i]]))
            /\ \A j \in 1..n3 :
                  /\ IsOrphan(results[n - n3 + j])
                  /\ results[n - n3 + j].doc_id = Some(doc_sections[OrphanIdx[j]].id)
            /\ \A i \in Middle :
                  /\ IsLinkFinding(results[i]) \/ IsArgFinding(results[i])
                  /\ \E k \in 1..Len(code_entities) :
                        /\ code_entities[k].doc_id # None
                        /\ results[i].code_location = Some(Location(code_entities[k]))
            /\ \A i \in Middle : \A j \in Middle :
                  i < j => EntityAt(results[i]) <= EntityAt(results[j])
            /\ \A i \in Middle :
                  IsLinkFinding(results[i])
                      <=> (i = n1 + 1 \/ EntityAt(results[i - 1]) # EntityAt(results[i]))
            /\ \A k \in 1..Len(code_entities) :
                  code_entities[k].doc_id # None
                      => \E i \in Middle : EntityAt(results[i]) = k

(* an Error of a linked entity that comes first in the file is followed by the
   Info of a later unlinked entity's group (moved to the front) and by an
   orphan Warning *)
C1_Witness ==
    /\ pc = "validated"
    /\ Len(code_entities) = 2
    /\ code_entities[1].doc_id # None
    /\ code_entities[2].doc_id = None
    /\ Len(results) = 3
    /\ results[1].severity = "Info"
    /\ results[2].severity = "Error"
    /\ results[3].severity = "Warning"

-----------------------------------------------------------------------------
(* C2: every entity with a doc id gets exactly one link finding: the Info
   "link verified" when some section has that id, otherwise an Error carrying
   the doc id and nothing else for that entity.  When the matched section and
   the entity both have no arguments, the entity contributes no Error and no
   Warning. *)
C2_OneLinkFindingPerLinkedEntity ==
    Computed =>
        \A k \in 1..Len(code_entities) :
            code_entities[k].doc_id # None =>
                LET fs == FindingsOf(k)
                    id == Unwrap(code_entities[k].doc_id)
                IN  /\ Len(SelectSeq(fs, IsLinkFinding)) = 1
                    /\ HasSection(id) =>
                          /\ IsLinkVerified(fs[1])
                          /\ fs[1].doc_id = Some(id)
                          /\ (code_entities[k].args = <<>> /\ SectionOf(k).args = <<>>)
                                => Len(fs) = 1
                    /\ ~HasSection(id) =>
                          /\ Len(fs) = 1
                          /\ IsDocIdNotFound(fs[1])
                          /\ fs[1].doc_id = Some(id)
                          /\ Contains(fs[1].message, Q \o id \o Q)

(* scenario A and scenario B side by side *)
C2_Witness ==
    /\ pc = "validated"
    /\ \E k \in 1..Len(code_entities) :
          /\ code_entities[k].doc_id # None
          /\ HasSection(Unwrap(code_entities[k].doc_id))
          /\ code_entities[k].args = <<>>
          /\ SectionOf(k).args = <<>>
          /\ Len(FindingsOf(k)) = 1
    /\ \E k \in 1..Len(code_entities) :
          /\ code_entities[k].doc_id # None
          /\ ~HasSection(Unwrap(code_entities[k].doc_id))
          /\ FindingsOf(k)[1].severity = "Error"

-----------------------------------------------------------------------------
(* C3: every section whose id is the doc id of no entity gets exactly one
   "orphan section" Warning, which carries the section's id and neither a
   function name nor a location; a section whose id some entity references
   gets none. *)
C3_OrphanWarnings ==
    Computed =>
        LET orphans == SelectSeq(results, IsOrphan)
        IN  /\ Len(orphans) = Len(OrphanIdx)
            /\ \A j \in 1..Len(orphans) :
                  /\ orphans[j].doc_id = Some(doc_sections[OrphanIdx[j]].id)
                  /\ orphans[j].function_name = None
                  /\ orphans[j].code_location = None
            /\ \A f \in {results[i] : i \in 1..Len(results)} :
                  (f.severity = "Warning" /\ f.function_name = None) => IsOrphan(f)

(* one section is referenced, another is not *)
C3_Witness ==
    /\ pc = "validated"
    /\ \E j \in 1..Len(doc_sections) : Referenced(doc_sections[j].id)
    /\ \E j \in 1..Len(doc_sections) : ~Referenced(doc_sections[j].id)
    /\ \E i \in 1..Len(results) : IsOrphan(results[i])

-----------------------------------------------------------------------------
(* the names of the arguments of a list, in list order, that satisfy keep *)
NamesWhere(args, keep(_)) ==
    LET idx == SelectSeq(Idx(Len(args)), keep)
    IN  [i \in 1..Len(idx) |-> args[idx[i]].name]

(* the first code argument of entity k that has this name *)
CodeArgNamed(k, name) ==
    LET args == code_entities[k].args
    IN  args[CHOOSE i \in 1..Len(args) :
                /\ args[i].name = name
                /\ \A j \in 1..(i - 1) : args[j].name # name]

(* C4: for every linked entity/section pair there is one "ghost argument"
   Error per documented argument whose name no argument of the signature has,
   naming that argument, and none for a documented argument whose name is in
   the signature. *)
C4_GhostArguments ==
    Computed =>
        /\ \A i \in 1..Len(results) :
              IsGhost(results[i]) =>
                  \E n \in 1..Len(PairedIdx) :
                      results[i].code_location
                          = Some(Location(code_entities[PairedIdx[n]]))
        /\ \A n \in 1..Len(PairedIdx) :
              LET k == PairedIdx[n]
                  docs == SectionOf(k).args
                  ghosts == SelectSeq(FindingsOf(k), IsGhost)
                  expected ==
                      NamesWhere(docs, LAMBDA i :
                          docs[i].name \notin ArgNamesOf(code_entities[k].args))
              IN  /\ Len(ghosts) = Len(expected)
                  /\ \A i \in 1..Len(ghosts) :
                        StartsWith(ghosts[i].message,
                                   Text(<<"Argumento", "fantasma:">>) \o SP \o Q
                                       \o expected[i] \o Q)

(* a documented argument is absent from a signature that has an argument *)
C4_Witness ==
    /\ pc = "validated"
    /\ \E n \in 1..Len(PairedIdx) :
          /\ code_entities[PairedIdx[n]].args # <<>>
          /\ \E i \in 1..Len(FindingsOf(PairedIdx[n])) :
                IsGhost(FindingsOf(PairedIdx[n])[i])

-----------------------------------------------------------------------------
(* C5: for every linked entity/section pair there is one "missing in docs"
   Warning per code argument whose name the section does not document, naming
   that argument, and none for a documented code argument; within one pair
   these Warnings come after all ghost and type findings of the pair. *)
C5_MissingInDocs ==
    Computed =>
        /\ \A i \in 1..Len(results) :
              IsMissing(results[i]) =>
                  \E n \in 1..Len(PairedIdx) :
                      results[i].code_location
                          = Some(Location(code_entities[PairedIdx[n]]))
        /\ \A n \in 1..Len(PairedIdx) :
              LET k == PairedIdx[n]
                  code == code_entities[k].args
                  fs == FindingsOf(k)
                  missing == SelectSeq(fs, IsMissing)
                  expected ==
                      NamesWhere(code, LAMBDA i :
                          code[i].name \notin ArgNamesOf(SectionOf(k).args))
              IN  /\ Len(missing) = Len(expected)
                  /\ \A i \in 1..Len(missing) :
                        StartsWith(missing[i].message,
                                   Text(<<"El", "argumento">>) \o SP \o Q
                                       \o expected[i] \o Q)
                  /\ \A i \in 1..Len(fs) : \A j \in 1..Len(fs) :
                        (IsMissing(fs[i]) /\ (IsGhost(fs[j]) \/ IsMismatch(fs[j])))
                            => j < i

(* one pair with a ghost argument and an undocumented code argument *)
C5_Witness ==
    /\ pc = "validated"
    /\ \E n \in 1..Len(PairedIdx) :
          LET fs == FindingsOf(PairedIdx[n])
          IN  /\ \E i \in 1..Len(fs) : IsGhost(fs[i])
              /\ \E i \in 1..Len(fs) : IsMissing(fs[i])

-----------------------------------------------------------------------------
(* C6: for a documented argument whose name is in the code signature there is
   a "type mismatch" Warning if and only if both sides declare a type and the
   two types differ after normalization; the Warning names both type texts as
   written, not normalized. *)
C6_TypeMismatch ==
    Computed =>
        /\ \A i \in 1..Len(results) :
              IsMismatch(results[i]) =>
                  \E n \in 1..Len(PairedIdx) :
                      results[i].code_location
                          = Some(Location(code_entities[PairedIdx[n]]))
        /\ \A n \in 1..Len(PairedIdx) :
              LET k == PairedIdx[n]
                  docs == SectionOf(k).args
                  Differs(i) ==
                      /\ docs[i].name \in ArgNamesOf(code_entities[k].args)
                      /\ docs[i].type_name # None
                      /\ CodeArgNamed(k, docs[i].name).type_name # None
                      /\ normalize_type(Unwrap(docs[i].type_name))
                            # normalize_type(
                                  Unwrap(CodeArgNamed(k, docs[i].name).type_name))
                  idx == SelectSeq(Idx(Len(docs)), Differs)
                  mismatches == SelectSeq(FindingsOf(k), IsMismatch)
              IN  /\ Len(mismatches) = Len(idx)
                  /\ \A i \in 1..Len(mismatches) :
                        LET d == docs[idx[i]]
                            c == CodeArgNamed(k, d.name)
                        IN  /\ Contains(mismatches[i].message, Q \o d.name \o <<"':">>)
                            /\ Contains(mismatches[i].message,
                                        Text(<<"codigo", "tiene">>) \o SP \o Q
                                            \o Unwrap(c.type_name) \o <<"',">>)
                            /\ Contains(mismatches[i].message,
                                        Text(<<"docs", "dice">>) \o SP \o Q
                                            \o Unwrap(d.type_name) \o <<"'.">>)

(* code type &str against documented type Integer: one mismatch *)
C6_Witness ==
    /\ pc = "validated"
    /\ \E i \in 1..Len(results) :
          /\ IsMismatch(results[i])
          /\ Contains(results[i].message, Q \o Ty_ref_str \o <<"',">>)
          /\ Contains(results[i].message, Q \o Ty_Integer \o <<"'.">>)

-----------------------------------------------------------------------------
(* Vocabulary of the properties of normalize_type *)

SameLetter(a, b) ==
    \/ a = b
    \/ \E i \in 1..Len(UpperChars) : {a, b} = {UpperChars[i], LowerChars[i]}

(* equal up to the case of the letters *)
EqualIgnoringCase(s, t) ==
    Len(s) = Len(t) /\ \A i \in 1..Len(s) : SameLetter(s[i], t[i])

IsAliasOf(s, aliases) == \E a \in aliases : EqualIgnoringCase(s, a)

IsLowercaseOf(out, s) ==
    /\ EqualIgnoringCase(out, s)
    /\ \A i \in 1..Len(out) : \A u \in 1..Len(UpperChars) : out[i] # UpperChars[u]

(* s without the blanks around it *)
Stripped(s) ==
    LET keep == {i \in 1..Len(s) : s[i] \notin WhiteSpace}
    IN  IF keep = {} THEN <<>>
        ELSE SubSeq(s, CHOOSE i \in keep : \A j \in keep : i <= j,
                       CHOOSE i \in keep : \A j \in keep : j <= i)

(* what the claim says normalize_type makes of the text s *)
NormalizedAs(out, s) ==
    IF IsAliasOf(s, StringAliases \cup {T_uuid}) THEN out = T_string
    ELSE IF IsAliasOf(s, NumberAliases) THEN out = T_number
    ELSE IF IsAliasOf(s, BooleanAliases) THEN out = T_boolean
    ELSE IsLowercaseOf(out, s)

(* C7 as stated: normalization is case-insensitive, maps the string aliases
   and uuid to "string", the numeric aliases to "number", boolean/bool to
   "boolean" and any other type to its lowercased text unchanged, and is
   idempotent. *)
C7_AsStated ==
    /\ pc \in {"normalized", "renormalized"} => NormalizedAs(type_out, type_in)
    /\ pc = "renormalized" => type_out2 = type_out

(* C7 amended: the same of the type text without the whitespace around it:
   normalization ignores case and surrounding whitespace, maps the string
   aliases and uuid to "string", the numeric aliases to "number", boolean/bool
   to "boolean" and any other type to its trimmed, lowercased text, and is
   idempotent. *)
C7_NormalizeTrimmed ==
    /\ pc \in {"normalized", "renormalized"} => NormalizedAs(type_out, Stripped(type_in))
    /\ pc = "renormalized" => type_out2 = type_out

(* "Integer " with a trailing blank has been normalized twice *)
C7_Witness ==
    /\ pc = "renormalized"
    /\ type_in = Ty_Integer \o <<" ">>
    /\ type_out = T_number
    /\ type_out2 = T_number

-----------------------------------------------------------------------------
(* C8: when both inputs parse and the baseline (if any) loads, the check run
   exits non-zero exactly when at least one Error finding is reported after
   baseline filtering; with only Warning and Info findings reported, or none,
   it exits with 0. *)
C8_ExitReflectsReportedErrors ==
    pc = "check_done" =>
        /\ exit_code \in {0, 1}
        /\ exit_code # 0 <=> \E i \in 1..Len(reported) : reported[i].severity = "Error"

(* a baseline suppresses the only Error of the run, whose reported findings
   are Warnings and Infos: the run succeeds *)
C8_Witness ==
    /\ pc = "check_done"
    /\ baseline_file.exists
    /\ suppressed > 0
    /\ ErrorCount(results) > 0
    /\ reported # <<>>
    /\ exit_code = 0

-----------------------------------------------------------------------------
(* Vocabulary of the properties of the baseline engine *)

(* the key of a finding: severity, function name, doc id, message fingerprint *)
KeyOf(r) ==
    <<r.severity, r.function_name, r.doc_id,
      JoinSpace(Take(SplitWhitespace(r.message), FingerprintTokens))>>

KeyOfEntry(e) == <<e.severity, e.function_name, e.doc_id, e.message_fingerprint>>

EntryKeys == {KeyOfEntry(Unwrap(in_memory).entries[i]) :
                 i \in 1..Len(Unwrap(in_memory).entries)}

IsInfo(r) == r.severity = "Info"

NotInfo(r) == r.severity # "Info"

(* C9: filter_baseline removes a finding if and only if it is not an Info and
   its key is the key of some baseline entry; the count it returns is the
   number of removed findings; the findings that survive are unchanged and in
   their original order; an Info survives even when an entry has its key. *)
C9_FilterBaseline ==
    pc = "bl_filtered" =>
        LET Removed(r) == NotInfo(r) /\ KeyOf(r) \in EntryKeys
        IN  /\ reported = SelectSeq(results, LAMBDA r : ~Removed(r))
            /\ suppressed = Len(SelectSeq(results, Removed))
            /\ Len(reported) + suppressed = Len(results)
            /\ SelectSeq(reported, IsInfo) = SelectSeq(results, IsInfo)

(* a finding whose key is in the baseline is removed, and an Info whose key
   is in the baseline too is all that is left *)
C9_Witness ==
    /\ pc = "bl_filtered"
    /\ Len(results) = 2
    /\ suppressed = 1
    /\ Len(reported) = 1
    /\ IsInfo(reported[1])
    /\ KeyOf(reported[1]) \in EntryKeys

-----------------------------------------------------------------------------
(* C10: the baseline built by from_results from the findings F holds one entry
   per non-Info finding of F and none for an Info; filtering F followed by a
   further non-Info finding whose key differs from every key of F suppresses
   every non-Info finding of F and lets the further finding through. *)
C10_BaselineSuppressesItsOwnFindings ==
    LET F == SubSeq(results, 1, built_from)
        kept == SelectSeq(F, NotInfo)
        entries == Unwrap(in_memory).entries
    IN  /\ pc = "bl_built" =>
              /\ Len(entries) = Len(kept)
              /\ \A i \in 1..Len(entries) :
                    /\ KeyOfEntry(entries[i]) = KeyOf(kept[i])
                    /\ entries[i].severity # "Info"
        /\ (/\ pc = "bl_filtered"
            /\ built_from >= 0
            /\ Len(results) = built_from + 1
            /\ NotInfo(results[Len(results)])
            /\ \A i \in 1..Len(F) : KeyOf(F[i]) # KeyOf(results[Len(results)]))
               => /\ suppressed = Len(kept)
                  /\ reported = SelectSeq(F, IsInfo) \o <<results[Len(results)]>>

(* scenario F: the baseline of two findings, one of them a Warning, filters
   the two and a third *)
C10_Witness ==
    /\ pc = "bl_filtered"
    /\ built_from = 2
    /\ Len(results) = 3
    /\ results[1].severity # results[2].severity
    /\ suppressed = 2
    /\ reported = <<results[3]>>

-----------------------------------------------------------------------------
(* C11: the check command run after the baseline command on the same code
   file, doc file and project root ends successfully: the snapshot on disk
   being the one the baseline command writes for these files, every Error and
   Warning of the validation is suppressed, the suppressed count is the number
   of non-Info findings, and only the Info findings are reported. *)
C11_CheckAfterBaselineIsGreen ==
    (/\ pc = "check_done"
     /\ baseline_file = run_baseline(code_entities, doc_sections))
        => /\ exit_code = 0
           /\ results = validate_links(code_entities, doc_sections)
           /\ suppressed = Len(SelectSeq(results, NotInfo))
           /\ reported = SelectSeq(results, IsInfo)

(* the validation gives an Error, a Warning and an Info; after baseline and
   check the two are suppressed and the Info is reported *)
C11_Witness ==
    /\ pc = "check_done"
    /\ baseline_file = run_baseline(code_entities, doc_sections)
    /\ \E i \in 1..Len(results) : results[i].severity = "Error"
    /\ \E i \in 1..Len(results) : results[i].severity = "Warning"
    /\ suppressed >= 2
    /\ reported # <<>>
    /\ exit_code = 0

-----------------------------------------------------------------------------
(* Vocabulary of the properties of make_fingerprint *)

(* where the maximal runs of non-whitespace pieces of s start *)
TokenStarts(s) ==
    {i \in 1..Len(s) : s[i] \notin WhiteSpace /\ (i = 1 \/ s[i - 1] \in WhiteSpace)}

(* the run that starts at i *)
RunAt(s, i) ==
    SubSeq(s, i, CHOOSE j \in i..Len(s) :
                    /\ \A k \in i..j : s[k] \notin WhiteSpace
                    /\ (j = Len(s) \/ s[j + 1] \in WhiteSpace))

(* the first n whitespace-separated tokens of s, in order *)
FirstTokens(s, n) ==
    LET starts == TokenStarts(s)
        Rank(i) == Cardinality({j \in starts : j <= i})
        m == IF Cardinality(starts) < n THEN Cardinality(starts) ELSE n
    IN  [r \in 1..m |-> RunAt(s, CHOOSE i \in starts : Rank(i) = r)]

(* f is the tokens, in order, with one space between two of them and no
   other whitespace *)
IsJoinOf(f, tokens) ==
    /\ FirstTokens(f, Len(tokens) + 1) = tokens
    /\ \A i \in 1..Len(f) : f[i] \in WhiteSpace =>
          /\ f[i] = " "
          /\ 1 < i /\ i < Len(f)
          /\ f[i - 1] \notin WhiteSpace /\ f[i + 1] \notin WhiteSpace

(* C12: the fingerprint of a message is its first six whitespace-separated
   tokens joined by single spaces; two messages with the same first six tokens
   have the same fingerprint whatever follows, and two messages that differ in
   one of the first six tokens have different fingerprints. *)
C12_Fingerprint ==
    pc = "fingerprinted" =>
        /\ IsJoinOf(fingerprints[1], FirstTokens(fp_message, 6))
        /\ IsJoinOf(fingerprints[2], FirstTokens(fp_variant, 6))
        /\ FirstTokens(fp_message, 6) = FirstTokens(fp_variant, 6)
              <=> fingerprints[1] = fingerprints[2]

(* two messages of eight words in different layouts that differ in the
   seventh word only have one fingerprint *)
C12_Witness ==
    /\ pc = "fingerprinted"
    /\ Len(FirstTokens(fp_message, 8)) = 8
    /\ FirstTokens(fp_message, 6) = FirstTokens(fp_variant, 6)
    /\ FirstTokens(fp_message, 7) # FirstTokens(fp_variant, 7)
    /\ fp_message[1] # fp_variant[1]
    /\ fingerprints[1] = fingerprints[2]

-----------------------------------------------------------------------------
(* C13: after save(baseline, root), load(root) returns a baseline whose set
   of entries (severity, function name or absent, doc id or absent,
   fingerprint) is the set of the saved baseline; after two saves to the same
   root it is the set of the more recent one. *)
C13_SaveLoadRoundTrip ==
    (pc = "loaded" /\ saved # <<>>) =>
        /\ load_result.ok
        /\ load_result.value # None
        /\ entry_set(Unwrap(load_result.value)) = entry_set(saved[Len(saved)])

(* two saves of baselines with other entries, the second one with an entry
   without function name and an entry for a function called null, then a load *)
C13_Witness ==
    /\ pc = "loaded"
    /\ Len(saved) = 2
    /\ entry_set(saved[1]) \cap entry_set(saved[2]) = {}
    /\ entry_set(saved[1]) # {}
    /\ \E e \in entry_set(saved[2]) : e.function_name = None
    /\ \E e \in entry_set(saved[2]) : e.function_name = Some(<<"null">>)
    /\ load_result.ok

-----------------------------------------------------------------------------
(* Vocabulary of the properties of Baseline::load *)

(* the snapshot file holds a YAML document *)
IsYaml(file) == file.content # Unparsable

(* the text after "version:" in it *)
VersionIn(file) == Lookup(file.content[1], "version")[1].text

CheckEnded == pc \in {"check_done", "check_aborted"}

(* C14: Baseline load has exactly three outcomes.  Without a snapshot file
   there is no baseline, and the check run reports every finding with a
   suppressed count of 0.  A parsable snapshot with version "1" gives that
   baseline.  A snapshot with any other version, or an unparsable one, gives
   an error that aborts the run before any finding is filtered or reported. *)
C14_LoadOutcomes ==
    /\ (pc = "check_done" /\ ~baseline_file.exists) =>
          /\ in_memory = None
          /\ results = validate_links(code_entities, doc_sections)
          /\ reported = results
          /\ suppressed = 0
    /\ (pc = "check_done" /\ baseline_file.exists) =>
          /\ IsYaml(baseline_file)
          /\ VersionIn(baseline_file) = <<"1">>
          /\ in_memory # None
          /\ to_string(Unwrap(in_memory)) = baseline_file.content
    /\ (/\ CheckEnded
        /\ baseline_file.exists
        /\ (IsYaml(baseline_file) => VersionIn(baseline_file) # <<"1">>)) =>
          /\ pc = "check_aborted"
          /\ exit_code # 0
          /\ in_memory = None
          /\ reported = <<>>
          /\ suppressed = 0

(* a snapshot that held entries was given version "2": the check run, whose
   validation has findings, is aborted *)
C14_Witness ==
    /\ pc = "check_aborted"
    /\ IsYaml(baseline_file)
    /\ VersionIn(baseline_file) = <<"2">>
    /\ Lookup(baseline_file.content[1], "entries")[1] # <<>>
    /\ results # <<>>
    /\ reported = <<>>

-----------------------------------------------------------------------------
(* Vocabulary of the properties of find_candidates *)

UnlinkedEntity(i) == code_entities[i].doc_id = None

UnreferencedSection(j) ==
    \A i \in 1..Len(code_entities) : code_entities[i].doc_id # Some(doc_sections[j].id)

FreeSections == {j \in 1..Len(doc_sections) : UnreferencedSection(j)}

(* the confidence of the pair: the greater of the similarity of the
   normalized name to the normalized id and to the normalized title *)
Confidence(i, j) == compute_confidence(code_entities[i].name, doc_sections[j])

CandidatesOf(i) == {k \in 1..Len(candidates) : candidates[k].entity_index = i}

(* C15: find_candidates emits at most one candidate per entity; every
   candidate pairs an entity without doc id with a section whose id is the
   doc id of no entity, with a confidence in [0.80, 1.0]; a linked entity and
   a referenced section appear in no candidate. *)
C15_CandidatesAreUnlinkedPairs ==
    pc = "candidates_found" =>
        /\ \A i \in 1..Len(code_entities) : Cardinality(CandidatesOf(i)) <= 1
        /\ \A k \in 1..Len(candidates) :
              LET c == candidates[k]
              IN  /\ c.entity_index \in 1..Len(code_entities)
                  /\ c.section_index \in 1..Len(doc_sections)
                  /\ UnlinkedEntity(c.entity_index)
                  /\ UnreferencedSection(c.section_index)
                  /\ c.function_name = code_entities[c.entity_index].name
                  /\ c.section_id = doc_sections[c.section_index].id
                  /\ 5 * c.confidence[1] >= 4 * c.confidence[2]
                  /\ c.confidence[1] <= c.confidence[2]

(* the linked function login and its section login, which would pair with
   full confidence with the unlinked function login, stay out: the one
   candidate is the section logins at 5/6 *)
C15_Witness ==
    /\ pc = "candidates_found"
    /\ Len(candidates) = 1
    /\ candidates[1].confidence = <<5, 6>>
    /\ \E i \in 1..Len(code_entities) : ~UnlinkedEntity(i)
    /\ \E j \in 1..Len(doc_sections) :
          /\ ~UnreferencedSection(j)
          /\ Confidence(candidates[1].entity_index, j) = <<5, 5>>

(* C16: for each unlinked entity for which some unreferenced section reaches
   confidence 0.80, the candidate is the section of maximal confidence, the
   first of them in the section list when several have it; the list is sorted
   by non-increasing confidence, and candidates of equal confidence stay in
   entity order. *)
C16_BestSectionSortedByConfidence ==
    pc = "candidates_found" =>
        /\ \A i \in 1..Len(code_entities) :
              LET reaching == {j \in FreeSections : Ge(Confidence(i, j), MIN_CONFIDENCE)}
                  best == {j \in reaching :
                              \A j2 \in reaching : Ge(Confidence(i, j), Confidence(i, j2))}
              IN  (UnlinkedEntity(i) /\ reaching # {}) =>
                      \E k \in CandidatesOf(i) :
                         /\ candidates[k].section_index \in best
                         /\ \A j \in best : candidates[k].section_index <= j
                         /\ candidates[k].confidence =
                               Confidence(i, candidates[k].section_index)
        /\ \A k \in 1..Len(candidates) : \A l \in (k + 1)..Len(candidates) :
              /\ Ge(candidates[k].confidence, candidates[l].confidence)
              /\ Ge(candidates[l].confidence, candidates[k].confidence)
                    => candidates[k].entity_index < candidates[l].entity_index

(* logon before login in the code, two sections that both give login full
   confidence and logon 0.80: each function takes the first section, and the
   candidate of login comes first *)
C16_Witness ==
    /\ pc = "candidates_found"
    /\ Len(candidates) = 2
    /\ candidates[1].entity_index > candidates[2].entity_index
    /\ candidates[1].confidence = <<5, 5>>
    /\ candidates[2].confidence = <<4, 5>>
    /\ \E j \in FreeSections :
          /\ j > candidates[1].section_index
          /\ Confidence(candidates[1].entity_index, j) = <<5, 5>>
    /\ \E j \in FreeSections :
          /\ j > candidates[2].section_index
          /\ Confidence(candidates[2].entity_index, j) = <<4, 5>>

-----------------------------------------------------------------------------
(* Vocabulary of the properties of parse_markdown_source: what the document
   is, read off its blocks *)

MarkerBlocks == {i \in 1..Len(events) : events[i].kind = "marker"}

(* the block of the k-th marker of the document *)
NthMarker(k) ==
    CHOOSE i \in MarkerBlocks : Cardinality({j \in MarkerBlocks : j <= i}) = k

(* the 1-based line on which block i starts *)
FirstLineOf(i) == 1 + Len(SourceOf(Upto(events, i - 1)))

(* the blocks between the k-th marker and the next marker or the end *)
BlocksOfSection(k) ==
    {i \in 1..Len(events) :
        /\ i > NthMarker(k)
        /\ \A j \in MarkerBlocks : j > NthMarker(k) => i < j}

(* C17: the markdown extractor returns one section per marker, in marker
   order, each with the id of its marker and the 1-based line of its marker;
   a marker met while a section is open closes that section, so two markers
   with nothing between them give two sections, the first without title and
   without arguments; a document without marker gives the empty list. *)
C17_OneSectionPerMarker ==
    pc = "md_parsed" =>
        /\ Len(doc_sections) = Cardinality(MarkerBlocks)
        /\ \A k \in 1..Len(doc_sections) :
              /\ doc_sections[k].id = events[NthMarker(k)].id
              /\ doc_sections[k].line = FirstLineOf(NthMarker(k))
              /\ BlocksOfSection(k) = {} /\ k < Len(doc_sections) =>
                    /\ doc_sections[k].title = None
                    /\ doc_sections[k].args = <<>>

(* a paragraph, then the markers of auth-login and auth-logout on lines 5
   and 6, then a heading: two sections, the first one empty *)
C17_Witness ==
    /\ pc = "md_parsed"
    /\ Len(events) = 4
    /\ events[1].kind = "paragraph"
    /\ events[4].kind = "heading"
    /\ Len(doc_sections) = 2
    /\ doc_sections[1].id = <<"auth-login">>
    /\ doc_sections[1].line = 5
    /\ doc_sections[1].title = None
    /\ doc_sections[1].args = <<>>
    /\ doc_sections[2].id = <<"auth-logout">>
    /\ doc_sections[2].line = 6
    /\ doc_sections[2].title # None

HeadingsOfSection(k) == {i \in BlocksOfSection(k) : events[i].kind = "heading"}

(* C18: the title of a section is the text of the first heading that closes
   after the section's marker and before the next marker; a heading before
   the marker is never the title, later headings of the section do not
   replace it, the title of one section is not carried to the next, and a
   section without heading has no title. *)
C18_TitleIsFirstHeadingOfSection ==
    pc = "md_parsed" =>
        \A k \in 1..Len(doc_sections) :
            IF HeadingsOfSection(k) = {}
            THEN doc_sections[k].title = None
            ELSE \E i \in HeadingsOfSection(k) :
                    /\ \A j \in HeadingsOfSection(k) : i <= j
                    /\ doc_sections[k].title = Some(events[i].title)

(* marker, the heading Log out, the heading Login, marker: the first section
   is titled Log out, the second has no title *)
C18_Witness ==
    /\ pc = "md_parsed"
    /\ Len(events) = 4
    /\ events[2] = HeadingLogout
    /\ events[3] = HeadingLogin
    /\ Len(doc_sections) = 2
    /\ doc_sections[1].title = Some(<<"Log", " ", "out">>)
    /\ doc_sections[2].title = None

(* the arguments documented by the blocks of a set, in the order of the blocks *)
RECURSIVE ArgsOfBlocks(_, _)
ArgsOfBlocks(among, i) ==
    IF i > Len(events) THEN <<>>
    ELSE (IF i \in among THEN events[i].args ELSE <<>>) \o ArgsOfBlocks(among, i + 1)

(* C19: the arguments of a section are exactly the arguments that the
   list-item, definition and table strategies capture between the section's
   marker and the next marker, in the order in which they are captured;
   arguments documented before the first marker belong to no section, and
   no argument belongs to two sections. *)
C19_ArgsBelongToTheOpenSection ==
    pc = "md_parsed" =>
        \A k \in 1..Len(doc_sections) :
            doc_sections[k].args = ArgsOfBlocks(BlocksOfSection(k), 1)

(* a paragraph of definitions before the first marker, then a list and a
   table under the marker: the section has the two arguments of the list and
   the one of the table, and none of the paragraph *)
C19_Witness ==
    /\ pc = "md_parsed"
    /\ events = <<Paragraph, MarkerLogin, List, Table>>
    /\ Len(doc_sections) = 1
    /\ Len(doc_sections[1].args) = 3
    /\ doc_sections[1].args[1].name = <<"tenant_id">>
    /\ doc_sections[1].args[2].name = <<"token">>
    /\ doc_sections[1].args[3] =
          DocArg(<<"limit">>, Some(<<"number">>), Some(<<"Page", " ", "size">>))

-----------------------------------------------------------------------------
(* Vocabulary of the properties of parse_code_file *)

Failed(error) ==
    /\ ~outcome.result.ok
    /\ outcome.result.error = error
    /\ outcome.result.value = <<>>
    /\ code_entities = <<>>

WasRead == \E i \in 1..Len(outcome.steps) : outcome.steps[i] = "read"

ParsedBy == {outcome.steps[i] : i \in 1..Len(outcome.steps)} \ {"read"}

(* C20: parse_code_file checks its input in this order.  A file without
   metadata fails; a file of more than 10 * 1024 * 1024 bytes fails before
   it is read or parsed, and one of exactly that size passes; a file that
   cannot be read fails; then ts, tsx, js and jsx select the TypeScript
   grammar and rs the Rust grammar, and every other extension and no
   extension fail.  A failure returns no entity. *)
C20_ParseCodeFileGates ==
    pc = "code_parsed" =>
        LET f == code_file
            ts == f.extension \in {Some("ts"), Some("tsx"), Some("js"), Some("jsx")}
            rs == f.extension = Some("rs")
        IN  /\ ~f.metadata => Failed("metadata") /\ ~WasRead /\ ParsedBy = {}
            /\ f.metadata /\ f.len > 10 * 1024 * 1024 =>
                  Failed("too large") /\ ~WasRead /\ ParsedBy = {}
            /\ f.metadata /\ f.len <= 10 * 1024 * 1024 =>
                  /\ WasRead
                  /\ ~f.readable => Failed("read") /\ ParsedBy = {}
                  /\ f.readable /\ ts =>
                        ParsedBy = {"TypeScript"} /\ outcome.result = f.parsed
                  /\ f.readable /\ rs =>
                        ParsedBy = {"Rust"} /\ outcome.result = f.parsed
                  /\ f.readable /\ ~ts /\ ~rs =>
                        /\ ParsedBy = {}
                        /\ IF f.extension = None THEN Failed("no extension")
                           ELSE Failed("unsupported extension")
            /\ ~outcome.result.ok => outcome.result.value = <<>> /\ code_entities = <<>>

(* a readable .jsx file of exactly 10 * 1024 * 1024 bytes with one function:
   read, parsed with the TypeScript grammar, its entity returned *)
C20_Witness ==
    /\ pc = "code_parsed"
    /\ code_file.len = 10 * 1024 * 1024
    /\ code_file.extension = Some("jsx")
    /\ outcome.result.ok
    /\ Len(code_entities) = 1
    /\ ParsedBy = {"TypeScript"}

-----------------------------------------------------------------------------
(* Vocabulary of the properties of run_scaffold *)

(* the candidates presented with the decision d: by force every decision
   is Accept *)
Decided(d) ==
    {k \in 1..scaffold.presented :
        IF force THEN d = "Accept" ELSE answers[k] = d}

Wrote == scaffold.written # None

(* C21: run_scaffold writes the code file only when dry_run is false and
   some candidate was accepted, by the answer of the user or by force; under
   dry_run, without candidate, and when every candidate was rejected or
   skipped, the file is not written.  In every run that reaches its summary
   the accepted, the rejected and the skipped candidates are those the user
   (or force) decided so, and they add up to the candidates presented. *)
C21_ScaffoldWritesOnlyAcceptedLinks ==
    pc = "scaffold_done" =>
        /\ Wrote => ~dry_run /\ Decided("Accept") # {}
        /\ dry_run \/ scaffold.found = 0 \/ Decided("Accept") = {} =>
              ~Wrote /\ code_text = scaffold.original
        /\ ~Wrote => code_text = scaffold.original
        /\ scaffold.summary =>
              /\ scaffold.presented = scaffold.found
              /\ Len(scaffold.accepted) = Cardinality(Decided("Accept"))
              /\ scaffold.rejected = Cardinality(Decided("Reject"))
              /\ scaffold.skipped = Cardinality(Decided("Skip"))
              /\ Len(scaffold.accepted) + scaffold.rejected + scaffold.skipped
                    = scaffold.presented

(* two candidates, the first accepted and the second skipped by the user:
   the file is written *)
C21_Witness ==
    /\ pc = "scaffold_done"
    /\ ~dry_run /\ ~force
    /\ answers = <<"Accept", "Skip">>
    /\ scaffold.found = 2
    /\ scaffold.skipped = 1
    /\ Wrote
    /\ code_text # scaffold.original

(* the lines of the code file before the run and of the text written *)
OriginalLines == Lines(scaffold.original)

WrittenLines == Lines(Unwrap(scaffold.written))

EndsWithNewline(text) == text # <<>> /\ text[Len(text)] = "\n"

(* C28: apply_changes inserts for every accepted candidate one line
   "/// @docs: [<section id>]" immediately above the line of the candidate's
   entity, with that line's leading whitespace; the original lines are kept,
   unchanged and in order, the final newline is kept if and only if there
   was one, and as many lines are added as there are accepted candidates. *)
C28_AsStated ==
    pc = "scaffold_done" /\ Wrote =>
        /\ Len(WrittenLines) = Len(OriginalLines) + Len(scaffold.accepted)
        /\ EndsWithNewline(Unwrap(scaffold.written)) <=> EndsWithNewline(scaffold.original)
        /\ \E pos \in [1..Len(scaffold.accepted) -> 1..Len(WrittenLines)] :
              /\ \A k, l \in DOMAIN pos : k # l => pos[k] # pos[l]
              /\ \A k \in DOMAIN pos :
                    LET c == scaffold.accepted[k]
                        declaration == OriginalLines[code_entities[c.entity_index].line]
                    IN  /\ WrittenLines[pos[k]] =
                              Indent(declaration) \o Annotation(c.section_id)
                        /\ pos[k] < Len(WrittenLines)
                        /\ WrittenLines[pos[k] + 1] = declaration
              /\ SelectSeq([i \in 1..Len(WrittenLines) |->
                              IF \E k \in DOMAIN pos : pos[k] = i
                              THEN <<"added">> ELSE WrittenLines[i]],
                           LAMBDA line : line # <<"added">>) = OriginalLines

-----------------------------------------------------------------------------
(* Vocabulary of the properties of find_docs_annotation: the function is the
   last child, the children before it are its preceding siblings *)

Preceding == 1..(Len(sibling_nodes) - 1)

IsComment(i) == sibling_nodes[i].kind = "comment"

(* the text of sibling i holds an @docs: annotation with the id *)
Annotated(i, id) ==
    /\ IsComment(i)
    /\ \E k \in 1..Len(sibling_nodes[i].text) : sibling_nodes[i].text[k] = "@docs:"
    /\ id = sibling_nodes[i].text[Len(sibling_nodes[i].text) -
                 (IF sibling_nodes[i].text[Len(sibling_nodes[i].text)] = "]" THEN 1 ELSE 0)]

(* the walk from the function up reaches sibling i: every nearer sibling is
   a comment without annotation, and no two consecutive start rows from the
   function to i are more than 2 apart *)
Reached(i) ==
    /\ \A j \in Preceding : j > i =>
          IsComment(j) /\ ~\E id \in {"auth-login", "auth-logout"} : Annotated(j, id)
    /\ \A j \in Preceding : j >= i =>
          sibling_nodes[j + 1].row - sibling_nodes[j].row <= 2

(* C22: the doc id of a function is the id of the nearest comment with an
   @docs: annotation that the walk over its preceding siblings reaches; the
   walk goes from the nearest sibling to the farthest and ends at the first
   sibling that is not a comment, and as soon as two consecutive start rows
   (the function's and its nearest sibling's included) are more than 2
   apart; a distance of 2 does not end it, and a comment without annotation
   is passed over. *)
C22_AsStated ==
    pc = "walked" =>
        \A id \in {"auth-login", "auth-logout"} :
            walk_result = <<Some(<<id>>)>>
                <=> \E i \in Preceding : Reached(i) /\ Annotated(i, id)

(* the preceding siblings that start above the function's row *)
Above == {i \in Preceding : sibling_nodes[i].row < sibling_nodes[Len(sibling_nodes)].row}

ReachedAbove(i) ==
    /\ i \in Above
    /\ \A j \in Above : j > i =>
          IsComment(j) /\ ~\E id \in {"auth-login", "auth-logout"} : Annotated(j, id)
    /\ \A j \in Above : j >= i =>
          LET next == IF \E l \in Above : l > j
                      THEN CHOOSE l \in Above : l > j /\ \A m \in Above : m > j => l <= m
                      ELSE Len(sibling_nodes)
          IN  sibling_nodes[next].row - sibling_nodes[j].row <= 2

(* C22, as the code has it: the same walk over the preceding siblings that
   start above the function's row; a sibling that starts on the function's
   row is ignored, whatever its kind *)
C22_WalkAboveFunctionRow ==
    pc = "walked" =>
        \A id \in {"auth-login", "auth-logout"} :
            walk_result = <<Some(<<id>>)>>
                <=> \E i \in Preceding : ReachedAbove(i) /\ Annotated(i, id)

-----------------------------------------------------------------------------
(* Vocabulary of the properties of parse_definition_as_arg: the form of the
   line, blanks around its parts not counting *)

(* the line begins with a name between backquotes: the name *)
QuotedName(line) ==
    LET t == Trim(line)
        close == Find(Tail(t), BQ)
    IN  IF t # <<>> /\ t[1] = BQ /\ close # 0
        THEN Some(Trim(SubSeq(t, 2, close)))
        ELSE None

(* what follows the quoted name *)
AfterName(line) ==
    LET t == Trim(line)
    IN  TrimStart(From(t, Find(Tail(t), BQ) + 2))

SingleToken(name) == name # <<>> /\ \A i \in 1..Len(name) : name[i] \notin WhiteSpace

(* what follows the parenthesized type that begins the text *)
AfterType(rest) == TrimStart(From(rest, Find(rest, ")") + 1))

BeginsWith(text, ch) == text # <<>> /\ text[1] = ch

(* a quoted single-token name, an optional type in parentheses, a colon *)
IsDefinition(line) ==
    /\ QuotedName(line) # None
    /\ SingleToken(Unwrap(QuotedName(line)))
    /\ \/ BeginsWith(AfterName(line), ":")
       \/ /\ BeginsWith(AfterName(line), "(")
          /\ Find(AfterName(line), ")") # 0
          /\ BeginsWith(AfterType(AfterName(line)), ":")

(* C23: the definition strategy captures a paragraph line as an Argument
   only if the line begins with a backquoted single-token name followed by an
   optional parenthesized type and a colon; a quoted name without the colon
   (directly or after the type) and a line of prose yield no Argument. *)
C23_AsStated ==
    pc = "def_parsed" =>
        (def_arg # <<None>> => IsDefinition(def_line))

(* C23, as the code has it: a line is captured if and only if it begins
   with a backquoted single-token name followed by a colon or by an opening
   parenthesis; after the parenthesis neither its closing nor a colon is
   asked for *)
C23_ColonOrParenthesis ==
    pc = "def_parsed" =>
        /\ def_arg # <<None>> <=>
              /\ QuotedName(def_line) # None
              /\ SingleToken(Unwrap(QuotedName(def_line)))
              /\ BeginsWith(AfterName(def_line), ":") \/ BeginsWith(AfterName(def_line), "(")
        /\ def_arg # <<None>> => Unwrap(def_arg[1]).name = Unwrap(QuotedName(def_line))
        /\ IsDefinition(def_line) => def_arg # <<None>>

-----------------------------------------------------------------------------
(* Vocabulary of the properties of the list-item strategy: the document is
   a marker and a list *)

ListItems == events[2].items

NoNestedBullet == \A k \in 1..Len(ListItems) : ListItems[k] # NestedBullet

(* the names the bullets document, callouts left out, in bullet order *)
RECURSIVE DocumentedNames(_)
DocumentedNames(items) ==
    IF items = <<>> THEN <<>>
    ELSE (IF items[1].callout THEN <<>> ELSE <<Unwrap(items[1].name)>>)
         \o DocumentedNames(Tail(items))

SectionArgNames == [k \in 1..Len(doc_sections[1].args) |-> doc_sections[1].args[k].name]

(* C24: a bullet that begins with emphasis (bold or italic) is a callout
   and yields no Argument for the open section; a bullet of the form
   name: desc, name (type): desc, or a backquoted name with an optional type,
   yields exactly one Argument with that name. *)
C24_AsStated ==
    pc = "md_parsed" /\ Len(events) = 2 /\ NoNestedBullet =>
        SectionArgNames = DocumentedNames(ListItems)

(* C24, for lists without callout: every bullet of one of the three forms
   yields exactly one Argument with its name, in bullet order *)
C24_PlainBulletsCaptured ==
    pc = "md_parsed" /\ Len(events) = 2 /\ NoNestedBullet
        /\ (\A k \in 1..Len(ListItems) : ~ListItems[k].callout) =>
        SectionArgNames = DocumentedNames(ListItems)

(* the text of a bullet itself: its Text and Code events outside a nested
   list, code between backquotes *)
RECURSIVE OwnText(_, _, _)
OwnText(evs, k, depth) ==
    IF k > Len(evs) THEN <<>>
    ELSE LET e == evs[k]
         IN  IF e.kind = "StartList" THEN OwnText(evs, k + 1, depth + 1)
             ELSE IF e.kind = "EndList" THEN OwnText(evs, k + 1, depth - 1)
             ELSE (IF depth = 0 /\ e.kind = "Text" THEN e.text
                   ELSE IF depth = 0 /\ e.kind = "Code" THEN <<BQ>> \o e.text \o <<BQ>>
                   ELSE <<>>) \o OwnText(evs, k + 1, depth)

(* the events of the bullet nested in a bullet, none when there is none *)
NestedEvents(evs) ==
    IF \E k \in 1..Len(evs) : evs[k].kind = "StartList"
    THEN SubSeq(evs, (CHOOSE k \in 1..Len(evs) : evs[k].kind = "StartList") + 1,
                     (CHOOSE k \in 1..Len(evs) : evs[k].kind = "EndList") - 1)
    ELSE <<>>

(* the Arguments of the bullets in the order in which the bullets close,
   each parsed from the bullet's own text: a nested bullet before the bullet
   that holds it *)
RECURSIVE OwnArgs(_)
OwnArgs(items) ==
    IF items = <<>> THEN <<>>
    ELSE (IF NestedEvents(items[1].evs) = <<>> THEN <<>>
          ELSE parse_list_item_as_arg(OwnText(NestedEvents(items[1].evs), 1, 0)))
         \o parse_list_item_as_arg(OwnText(items[1].evs, 1, 0))
         \o OwnArgs(Tail(items))

(* C25: every list item that closes while a section is open contributes at
   most one Argument, parsed from the text of that item itself; with a list
   nested in an item, the nested item is captured once and the parent item is
   parsed from its own text. *)
C25_AsStated ==
    pc = "md_parsed" /\ Len(events) = 2 =>
        doc_sections[1].args = OwnArgs(ListItems)

(* C25, for lists without nested list: each item gives the Argument parsed
   from its own text, and no other *)
C25_FlatItemsParsedFromOwnText ==
    pc = "md_parsed" /\ Len(events) = 2 /\ NoNestedBullet =>
        doc_sections[1].args = OwnArgs(ListItems)

-----------------------------------------------------------------------------
(* Vocabulary of the properties of sections that share an id *)

(* the j-th section has the id of a section before it *)
LaterDuplicate(j) == \E h \in 1..(j - 1) : doc_sections[h].id = doc_sections[j].id

(* the findings of entity k are those of its reconciliation with this
   section and no other *)
ReconciledWith(k, section) ==
    FindingsOf(k) = LinkedEntityFindings(code_entities[k], <<section>>)

GetsOrphanWarning(j) ==
    \E i \in 1..Len(results) : results[i] = OrphanFinding(doc_sections[j])

(* C26 as stated: when several sections share an id, every entity linked to
   that id is verified and reconciled against the first such section only,
   and none of the later sections with that id receives an orphan Warning. *)
C26_AsStated ==
    Computed =>
        /\ \A k \in 1..Len(PairedIdx) : ReconciledWith(PairedIdx[k], SectionOf(PairedIdx[k]))
        /\ \A j \in 1..Len(doc_sections) : LaterDuplicate(j) => ~GetsOrphanWarning(j)

(* C26: when several sections share an id, every entity linked to that id is
   verified and reconciled against the first such section only; a later
   section with that id contributes to the findings of no entity, and it
   receives no orphan Warning when some entity is linked to the id, while
   it receives its own orphan Warning, as the first one does, when no entity
   is. *)
C26_FirstSectionOfAnIdIsTheLinkedOne ==
    Computed =>
        /\ \A k \in 1..Len(PairedIdx) : ReconciledWith(PairedIdx[k], SectionOf(PairedIdx[k]))
        /\ \A j \in 1..Len(doc_sections) :
              LaterDuplicate(j) =>
                  (GetsOrphanWarning(j) <=> ~Referenced(doc_sections[j].id))

(* an entity is linked to an id that two sections have, the second with an
   argument the first lacks; the entity is verified against the first, the
   argument of the second raises no finding and no section is an orphan *)
C26_Witness ==
    /\ pc = "validated"
    /\ Len(code_entities) = 1
    /\ Len(doc_sections) = 2
    /\ doc_sections[1].id = doc_sections[2].id
    /\ code_entities[1].doc_id = Some(doc_sections[1].id)
    /\ doc_sections[1].args = <<>>
    /\ doc_sections[2].args # <<>>
    /\ results = <<LinkVerifiedFinding(code_entities[1], doc_sections[1],
                                       doc_sections[1].id)>>

-----------------------------------------------------------------------------
(* Vocabulary of the properties of the severities *)

(* the k-th entity carries a doc id that no section has *)
DocIdUnknown(k) ==
    code_entities[k].doc_id # None /\ ~HasSection(Unwrap(code_entities[k].doc_id))

(* the section the k-th entity is linked with documents an argument whose
   name no argument of the entity's signature has *)
DocumentsGhost(k) ==
    /\ code_entities[k].doc_id # None
    /\ HasSection(Unwrap(code_entities[k].doc_id))
    /\ \E a \in 1..Len(SectionOf(k).args) :
          SectionOf(k).args[a].name \notin ArgNamesOf(code_entities[k].args)

FailingCondition == \E k \in 1..Len(code_entities) : DocIdUnknown(k) \/ DocumentsGhost(k)

(* C27: validate_links produces an Error only for a linked entity whose doc
   id no section has or for a documented argument that the signature of the
   linked entity lacks; a check run without baseline that reaches the
   validation fails exactly when one of the two holds, so unlinked entities,
   orphan sections, undocumented code arguments and type mismatches alone
   never fail a run. *)
C27_OnlyBrokenLinksAndGhostsFail ==
    /\ Computed =>
          /\ \A i \in 1..Len(results) :
                results[i].severity = "Error" =>
                    \/ IsDocIdNotFound(results[i]) /\ DocIdUnknown(EntityAt(results[i]))
                    \/ IsGhost(results[i]) /\ DocumentsGhost(EntityAt(results[i]))
          /\ \A i \in 1..Len(results) :
                (\/ IsUnlinkedInfo(results[i]) \/ IsOrphan(results[i])
                 \/ IsMissing(results[i]) \/ IsMismatch(results[i]))
                    => results[i].severity # "Error"
          /\ (\E i \in 1..Len(results) : results[i].severity = "Error")
                <=> FailingCondition
    /\ (pc = "check_done" /\ ~baseline_file.exists) =>
          (exit_code # 0 <=> FailingCondition)

(* a run without baseline whose findings are an unlinked entity, an
   undocumented code argument or a type mismatch, and an orphan section,
   ends with exit code 0 *)
C27_Witness ==
    /\ pc = "check_done"
    /\ ~baseline_file.exists
    /\ \E i \in 1..Len(results) : IsMissing(results[i]) \/ IsMismatch(results[i])
    /\ \E i \in 1..Len(results) : IsOrphan(results[i]) \/ IsUnlinkedInfo(results[i])
    /\ exit_code = 0

-----------------------------------------------------------------------------
(* Vocabulary of the properties of the watch mode *)

BothExist == disk.code.state # "gone" /\ disk.doc.state # "gone"

(* what a full extraction and validation of the files as they are now
   displays *)
OfCurrentContent(shown) ==
    /\ shown.code = Some(disk.code.v)
    /\ shown.outcome = "code_error" <=> disk.code.state # "ok"
    /\ shown.outcome = "doc_error" <=> (disk.code.state = "ok" /\ disk.doc.state # "ok")
    /\ shown.outcome = "results" <=> (disk.code.state = "ok" /\ disk.doc.state = "ok")
    /\ shown.doc = IF disk.code.state = "ok" THEN Some(disk.doc.v) ELSE None

(* the loop takes the oldest message of the channel *)
Handles(msg) ==
    /\ pc = "watch_loop"
    /\ channel.queue # <<>>
    /\ Head(channel.queue) = msg
    /\ Len(channel'.queue) < Len(channel.queue)

(* C29: the watch loop ends only when its channel is closed.  A parse
   failure during a re-validation, a watcher error, an event of another path
   and a deleted code or doc file do not end it, and none of them displays a
   validation of stale content: whatever the loop has handled before, a
   change event of a watched file, both files existing, runs the validation
   on the content the files have at that moment, and every other message
   leaves the displayed validation as it is. *)
C29_LoopEndsOnlyOnClosedChannel ==
    [][ /\ (pc = "watch_loop" /\ pc' # "watch_loop") =>
              (pc' = "watch_done" /\ channel.queue = <<>> /\ ~channel.open)
        /\ screen'.shown # screen.shown => OfCurrentContent(screen'.shown)
        /\ ((Handles("code") \/ Handles("doc")) /\ BothExist) =>
              (OfCurrentContent(screen'.shown) /\ pc' = "watch_loop")
        /\ ((Handles("code") \/ Handles("doc")) /\ ~BothExist) =>
              (screen'.shown = screen.shown /\ pc' = "watch_loop")
        /\ (Handles("other") \/ Handles("errors")) =>
              (screen'.shown = screen.shown /\ pc' = "watch_loop")
      ]_vars

(* the loop has handled a parse failure, a deleted file and a watcher error
   or an event of another path, and is still running; the last change event
   made it display the results of the files' current content *)
C29_Witness ==
    /\ pc = "watch_loop"
    /\ {"parse_error", "deleted"} \subseteq screen.handled
    /\ screen.handled \cap {"watcher_error", "other_path"} # {}
    /\ screen.shown.outcome = "results"
    /\ screen.note = "watching"
    /\ OfCurrentContent(screen.shown)
    /\ channel.queue = <<>>

(* the terminal does not show the validation of the files' latest content *)
Stale == ~OfCurrentContent(screen.shown)

(* C30: every modification of the code file or the doc file made after
   run_watch has started is eventually followed by a validation that reads
   the modified content, while both files exist and run_watch runs: the
   displayed result ends up matching the files' latest content. *)
C30_AsStated == (Running /\ Stale) ~> (~Stale \/ ~BothExist \/ ~Running)

(* C30, for the modifications the watcher has reported: a change event in
   the channel is followed by a validation of the content the files have
   then, while both files exist and run_watch runs *)
C30_ReportedChangesAreValidated ==
    (\E i \in 1..Len(channel.queue) : channel.queue[i] \in {"code", "doc"})
        ~> (~Stale \/ ~BothExist \/ ~Running)

====
